---- MODULE Spec2Model ----
(***************************************************************************)
(* A model of LiveHome3dFbxCleanupAndExport.py: the name grammar (the      *)
(* regular expressions, interpreted with Python's backtracking priority),  *)
(* the scene reorganisation, the continuous-UV join/split round trip, the  *)
(* opening carving and the collision synthesis.                            *)
(*                                                                         *)
(* Object names are strings; a character is a one-character string and     *)
(* positions count the characters already consumed (0..Len(s)).            *)
(***************************************************************************)
EXTENDS Integers, Sequences, FiniteSets, TLC

(***************************************************************************)
(* Generic helpers.                                                        *)
(***************************************************************************)
None == "<None>"

\* The concatenation of the sequences ss[lo..hi], by halves.
RECURSIVE FlatRange(_, _, _)
FlatRange(ss, lo, hi) ==
    IF lo > hi THEN <<>>
    ELSE IF lo = hi THEN ss[lo]
    ELSE LET mid == (lo + hi) \div 2
         IN  FlatRange(ss, lo, mid) \o FlatRange(ss, mid + 1, hi)

Flat(ss) == FlatRange(ss, 1, Len(ss))

CharAt(s, i) == SubSeq(s, i, i)

StartsWith(s, p) == Len(p) <= Len(s) /\ SubSeq(s, 1, Len(p)) = p

\* str.replace(old, new) with a non-empty old: every non-overlapping
\* occurrence, scanning from the left.
RECURSIVE ReplaceAllFrom(_, _, _, _)
ReplaceAllFrom(s, old, new, i) ==
    IF i > Len(s) THEN ""
    ELSE IF i + Len(old) - 1 <= Len(s) /\ SubSeq(s, i, i + Len(old) - 1) = old
         THEN new \o ReplaceAllFrom(s, old, new, i + Len(old))
         ELSE CharAt(s, i) \o ReplaceAllFrom(s, old, new, i + 1)

Replace(s, old, new) == ReplaceAllFrom(s, old, new, 1)

(***************************************************************************)
(* Regular expressions as syntax trees, matched the way Python's re does:  *)
(* Ends(r, s, st) is the sequence of match states that r can reach from    *)
(* st, in backtracking priority order (greedy quantifiers try the longer   *)
(* match first, alternations try the leftmost branch first).  A match      *)
(* state is the position reached and the spans of the named groups.        *)
(***************************************************************************)
Digits == {"0", "1", "2", "3", "4", "5", "6", "7", "8", "9"}

GroupNames == {"Room", "Element", "Garbage", "Prefix"}

NoSpan == <<>>

Lit(x)    == [t |-> "lit", s |-> x]
AnyChar   == [t |-> "any"]
Digit     == [t |-> "set", cs |-> Digits]
NotUnderscore == [t |-> "nset", cs |-> {"_"}]
Cat(rs)   == [t |-> "seq", rs |-> rs]
Alt(rs)   == [t |-> "alt", rs |-> rs]
Opt(r)    == [t |-> "opt", r |-> r]
Star(r)   == [t |-> "star", r |-> r]
Plus(r)   == Cat(<<r, Star(r)>>)
Group(n, r) == [t |-> "grp", n |-> n, r |-> r]
EndOfString == [t |-> "eos"]
D2        == Cat(<<Digit, Digit>>)

StartState == [p |-> 0, g |-> [n \in GroupNames |-> NoSpan]]

RECURSIVE Ends(_, _, _)
RECURSIVE EndsFromEach(_, _, _)
RECURSIVE EndsOfSeq(_, _, _, _)
RECURSIVE EndsOfAlt(_, _, _, _)

\* r tried from each of the states sts, in their order.
EndsFromEach(r, s, sts) ==
    Flat([j \in 1..Len(sts) |-> Ends(r, s, sts[j])])

\* rs[k], rs[k+1], ... one after the other, from the states sts.
EndsOfSeq(rs, k, s, sts) ==
    IF k > Len(rs) \/ sts = <<>> THEN sts
    ELSE EndsOfSeq(rs, k + 1, s, EndsFromEach(rs[k], s, sts))

\* the branches rs[k], rs[k+1], ... from st, leftmost first.
EndsOfAlt(rs, k, s, st) ==
    IF k > Len(rs) THEN <<>>
    ELSE Ends(rs[k], s, st) \o EndsOfAlt(rs, k + 1, s, st)

Ends(r, s, st) ==
    CASE r.t = "lit" ->
            IF st.p + Len(r.s) <= Len(s) /\ SubSeq(s, st.p + 1, st.p + Len(r.s)) = r.s
            THEN <<[st EXCEPT !.p = st.p + Len(r.s)]>> ELSE <<>>
      [] r.t = "any" ->
            IF st.p < Len(s) THEN <<[st EXCEPT !.p = st.p + 1]>> ELSE <<>>
      [] r.t = "set" ->
            IF st.p < Len(s) /\ CharAt(s, st.p + 1) \in r.cs
            THEN <<[st EXCEPT !.p = st.p + 1]>> ELSE <<>>
      [] r.t = "nset" ->
            IF st.p < Len(s) /\ CharAt(s, st.p + 1) \notin r.cs
            THEN <<[st EXCEPT !.p = st.p + 1]>> ELSE <<>>
      [] r.t = "eos" ->
            IF st.p = Len(s) THEN <<st>> ELSE <<>>
      [] r.t = "seq" ->
            EndsOfSeq(r.rs, 1, s, <<st>>)
      [] r.t = "alt" ->
            EndsOfAlt(r.rs, 1, s, st)
      [] r.t = "opt" ->
            Ends(r.r, s, st) \o <<st>>
      [] r.t = "star" ->
            \* r.r matches one character: the run of such characters from
            \* st.p, the longest first.
            LET misfits == {i \in (st.p + 1)..Len(s) :
                                Ends(r.r, s, [st EXCEPT !.p = i - 1]) = <<>>}
                n == IF misfits = {} THEN Len(s) - st.p
                     ELSE (CHOOSE i \in misfits : \A j \in misfits : i <= j) - st.p - 1
            IN  [j \in 1..(n + 1) |-> [st EXCEPT !.p = st.p + n + 1 - j]]
      [] r.t = "grp" ->
            LET inner == Ends(r.r, s, st)
            IN  [j \in 1..Len(inner) |->
                    [inner[j] EXCEPT !.g[r.n] = <<st.p, inner[j].p>>]]

\* re.match: anchored at the start of the string; the first state in
\* priority order is the match Python reports.
NoMatch == [ok |-> FALSE, p |-> 0, g |-> [n \in GroupNames |-> NoSpan]]

ReMatch(r, s) ==
    LET es == Ends(r, s, StartState)
    IN  IF es = <<>> THEN NoMatch ELSE [ok |-> TRUE, p |-> es[1].p, g |-> es[1].g]

\* m.group(name): the text of the group, or None when it took no part.
GroupText(m, s, n) ==
    IF m.g[n] = NoSpan THEN None ELSE SubSeq(s, m.g[n][1] + 1, m.g[n][2])

(***************************************************************************)
(* The script's patterns.                                                  *)
(***************************************************************************)
\* (?:_\d{2})?? : the same suffix, taken reluctantly.
OptD2Reluctant == Alt(<<Cat(<<>>), Cat(<<Lit("_"), D2>>)>>)

\* (?:_\d{2})?
OptD2 == Opt(Cat(<<Lit("_"), D2>>))

\* The body of (?P<Element>...), lines 118-133.
element_grammar ==
      Cat(<<
        Cat(<<Opt(Cat(<<Lit("Conduit"), OptD2, Lit("_")>>)), Opt(Lit("Closet_"))>>),
        Alt(<<
          Lit("CeilingTrim"),
          Cat(<<Lit("Ceiling"), OptD2>>),
          Cat(<<Lit("Floor"), Opt(Cat(<<Lit("_"), D2, Lit("_Slab")>>))>>),
          Cat(<<Opt(Lit("Stair")), Lit("Wall_"), D2,
                Opt(Cat(<<Lit("_"), Alt(<<
                  Cat(<<Lit("Moulding_"), Alt(<<Lit("Base"), Lit("Crown")>>),
                        Lit("_"), Alt(<<Lit("Left"), Lit("Right")>>)>>),
                  Cat(<<Opt(Lit("Garden")), Lit("Window"), OptD2, Opt(Lit("_Opening"))>>),
                  Cat(<<Lit("Door_"), D2, Opt(Lit("_Opening"))>>),
                  Cat(<<Lit("Opening"), OptD2>>)
                >>)>>))>>),
          Cat(<<Lit("WallPanel"), OptD2>>),
          Cat(<<Lit("Roof"), OptD2,
                Opt(Cat(<<Lit("_"),
                          Alt(<<Lit("Gable"), Lit("Hole"), Lit("Side"),
                                Lit("SegmentedSide"), Lit("Vent")>>),
                          OptD2>>)),
                Opt(Cat(<<Lit("_Window_"), D2, Opt(Lit("_Opening"))>>))>>),
          Cat(<<Lit("Post"), OptD2>>),
          Cat(<<Lit("Stairs"), Opt(Lit("_Opening")), OptD2>>),
          Lit("Conduit"),
          Lit("Tub_Shelf")
        >>),
        Opt(Cat(<<Lit("_Placeholder"), OptD2>>))
      >>)

element_regex_str ==
    Cat(<<
      Lit("SM_"),
      Group("Room", Plus(NotUnderscore)),
      Lit("_"),
      Opt(Group("Element", element_grammar)),
      Opt(Group("Garbage", Cat(<<Lit("_"), Star(AnyChar)>>))),
      EndOfString
    >>)

prefix_regex_str ==
    Group("Prefix", Cat(<<
      Opt(Lit("Closet_")),
      Opt(Cat(<<Lit("Conduit"), OptD2, Lit("_")>>)),
      Alt(<<Lit("CeilingTrim"), Lit("Ceiling"), Lit("Floor"), Lit("Post"), Lit("Roof"),
            Lit("Slab"), Lit("StairWall"), Lit("Stairs"), Lit("Tub_Shelf"),
            Lit("WallPanel"), Lit("Wall")>>),
      OptD2
    >>))

multipart_opening_regex_str ==
    Cat(<<Group("Prefix", Cat(<<Plus(AnyChar), Lit("Opening")>>)),
          Lit("_"), D2, EndOfString>>)

(***************************************************************************)
(* State.  objects is bpy.data.objects: the position of an object in the   *)
(* sequence is its identity and the order is the iteration order; a        *)
(* deleted object stays in place with alive = FALSE.  A parent is an       *)
(* object identity, 0 for none.                                            *)
(***************************************************************************)
VARIABLES
    pc,            \* the stage the script is at
    objects,       \* bpy.data.objects
    collections,   \* bpy.data.collections: the group names, in creation order
    imported,      \* the objects as they were when the stage started
    error,         \* the exception that ended the stage, or None
    name_match,    \* the parser's result for one raw name
    given,         \* the room, element and garbage a raw name was built from
    todo,          \* the source objects a collision pass has yet to visit
    subtraction_objects,  \* the openings behind each subtraction object of the last carving
    last_source,   \* the pass and source object of the loop body last run
    exported,      \* the export attempts made: group name and outcome
    twin,          \* a second import of the same file, its objects in another order
    fbx_fixed_scene_center,  \* the operator's setting: unset or a point
    stages,        \* the functions of the script called so far, in call order
    operator_calls,  \* the operator calls of the last loop body: operator, target, selection
    yielded,       \* what wall_openings_of yielded for each object it was called on
    parent_collection,  \* the group named in each object's last set_parent_collection call
    project,       \* the elements of project.xml, in document order
    output         \* the lines generate_ascii_tree returned

parserVars == <<name_match, given>>

collisionVars == <<todo, subtraction_objects, last_source, exported>>

recenterVars == <<twin, fbx_fixed_scene_center>>

logVars == <<stages, operator_calls, yielded, parent_collection>>

treeVars == <<project, output>>

vars == <<pc, objects, collections, imported, error, parserVars, collisionVars,
          recenterVars, logVars, treeVars>>

(***************************************************************************)
(* The parser: element_regex.match and prefix_regex.match as               *)
(* group_objects_by_room_and_type applies them to one name.                *)
(***************************************************************************)
\* match.group('Prefix'), or None
PrefixIn(pm, element) ==
    IF pm.ok THEN GroupText(pm, element, "Prefix") ELSE None

\* prefix_regex.match(element), then its Prefix group
PrefixOf(element) == PrefixIn(ReMatch(prefix_regex_str, element), element)

\* "_".join(['SM', room, prefix])
ElementPrefix(room, prefix) == "SM_" \o room \o "_" \o prefix

ElementPrefixOrNone(room, prefix) ==
    IF prefix = None THEN None ELSE ElementPrefix(room, prefix)

\* The group prefix of a room and an element, None when either the element
\* or its prefix match is absent.
GroupPrefixOf(room, element) ==
    IF element = None THEN None ELSE ElementPrefixOrNone(room, PrefixOf(element))

\* The groups of a match and the derived group prefix, each None when absent.
NameMatchOf(name, m) ==
    IF ~m.ok
    THEN [name |-> name, matched |-> FALSE, room |-> None, element |-> None,
          garbage |-> None, group_prefix |-> None]
    ELSE [name |-> name, matched |-> TRUE,
          room |-> GroupText(m, name, "Room"),
          element |-> GroupText(m, name, "Element"),
          garbage |-> GroupText(m, name, "Garbage"),
          group_prefix |-> GroupPrefixOf(GroupText(m, name, "Room"),
                                         GroupText(m, name, "Element"))]

\* The NameMatch of a raw name.
ParseName(name) == NameMatchOf(name, ReMatch(element_regex_str, name))

NoNameMatch == [name |-> "", matched |-> FALSE, room |-> None, element |-> None,
                garbage |-> None, group_prefix |-> None]

NoGiven == [room |-> None, element |-> None, garbage |-> None]

IdleParser == name_match = NoNameMatch /\ given = NoGiven

NoSource == [stage |-> None, src_ob |-> 0]

IdleCollision ==
    /\ todo = <<>>
    /\ subtraction_objects = <<>>
    /\ last_source = NoSource
    /\ exported = <<>>

\* fbx_fixed_scene_center = None
NoFixedCenter == [is_set |-> FALSE, at |-> <<0, 0, 0>>]

\* fbx_fixed_scene_center = Vector(point)
FixedCenter(point) == [is_set |-> TRUE, at |-> point]

IdleRecenter == twin = <<>> /\ fbx_fixed_scene_center = NoFixedCenter

IdleTree == project = <<>> /\ output = <<>>

IdleLog ==
    /\ stages = <<>>
    /\ operator_calls = <<>>
    /\ yielded = <<>>
    /\ parent_collection = <<>>

\* A function of the script is entered.
Begun(function) ==
    /\ stages' = Append(stages, function)
    /\ UNCHANGED <<operator_calls, yielded, parent_collection, treeVars>>

(***************************************************************************)
(* The names the parser is tried on.  The canonical elements are the       *)
(* language of element_grammar with \d drawn from SampleDigits; a garbage  *)
(* token is one to MaxGarbagePieces pieces joined by "_".                  *)
(***************************************************************************)
SampleDigits == {"1"}

RECURSIVE Lang(_)
RECURSIVE LangOfSeq(_, _)
RECURSIVE LangOfAlt(_, _)

LangOfSeq(rs, k) ==
    IF k > Len(rs) THEN {""}
    ELSE {a \o b : a \in Lang(rs[k]), b \in LangOfSeq(rs, k + 1)}

LangOfAlt(rs, k) ==
    IF k > Len(rs) THEN {} ELSE Lang(rs[k]) \cup LangOfAlt(rs, k + 1)

Lang(r) ==
    CASE r.t = "lit" -> {r.s}
      [] r.t = "set" -> r.cs \cap SampleDigits
      [] r.t = "seq" -> LangOfSeq(r.rs, 1)
      [] r.t = "alt" -> LangOfAlt(r.rs, 1)
      [] r.t = "opt" -> Lang(r.r) \cup {""}
      [] r.t = "grp" -> Lang(r.r)

Elements == Lang(element_grammar)

Rooms == {"R"}

MaxGarbagePieces == 2

GarbagePieces == {"g", "11", "11x"}

RECURSIVE GarbageOfPieces(_)
GarbageOfPieces(n) ==
    IF n = 1 THEN GarbagePieces
    ELSE {p \o "_" \o q : p \in GarbagePieces, q \in GarbageOfPieces(n - 1)}

GarbageTokens == UNION {GarbageOfPieces(n) : n \in 1..MaxGarbagePieces}

\* The leading "_"-delimited piece of a token.
FirstPiece(t) ==
    LET cut == {i \in 1..Len(t) : CharAt(t, i) = "_"}
    IN  IF cut = {} THEN t
        ELSE SubSeq(t, 1, (CHOOSE i \in cut : \A j \in cut : i <= j) - 1)

\* A token of the structural grammar: a two-digit number or one of the
\* words element_grammar is written with.
StructuralWords ==
    {"Conduit", "Closet", "CeilingTrim", "Ceiling", "Floor", "Slab", "Stair", "Wall",
     "StairWall", "Moulding", "Base", "Crown", "Left", "Right", "Garden", "Window",
     "GardenWindow", "Door", "Opening", "WallPanel", "Roof", "Gable", "Hole", "Side",
     "SegmentedSide", "Vent", "Post", "Stairs", "Tub", "Shelf", "Tub_Shelf",
     "Placeholder"}

IsStructuralToken(t) ==
    \/ t \in StructuralWords
    \/ Len(t) = 2 /\ CharAt(t, 1) \in Digits /\ CharAt(t, 2) \in Digits

CanonicalName(room, element) == "SM_" \o room \o "_" \o element

IdleScene ==
    /\ objects = <<>>
    /\ collections = <<>>
    /\ imported = <<>>
    /\ error = None

Givens ==
    {[room |-> room, element |-> element, garbage |-> None] :
        room \in Rooms, element \in Elements}
    \cup
    {[room |-> room, element |-> element, garbage |-> "_" \o token] :
        room \in Rooms, element \in Elements, token \in GarbageTokens}

InitParse ==
    /\ pc = "parse"
    /\ IdleScene
    /\ name_match = NoNameMatch
    /\ IdleCollision
    /\ IdleLog
    /\ IdleTree
    /\ IdleRecenter
    /\ given \in Givens

\* The parser applied to a canonical name.
ParseCanonical ==
    /\ pc = "parse"
    /\ given.garbage = None
    /\ name_match' = ParseName(CanonicalName(given.room, given.element))
    /\ pc' = "parsed"
    /\ UNCHANGED <<objects, collections, imported, error, given, collisionVars,
                   recenterVars, logVars, treeVars>>

\* The parser applied to a canonical name with its garbage tail ("_" and a
\* garbage token) appended, as the exporter writes it.
ParseExported ==
    /\ pc = "parse"
    /\ given.garbage # None
    /\ name_match' = ParseName(CanonicalName(given.room, given.element) \o given.garbage)
    /\ pc' = "parsed"
    /\ UNCHANGED <<objects, collections, imported, error, given, collisionVars,
                   recenterVars, logVars, treeVars>>

NextParse == ParseCanonical \/ ParseExported

SpecParse == InitParse /\ [][NextParse]_vars

Recovered ==
    /\ name_match.matched
    /\ name_match.room = given.room
    /\ name_match.element = given.element
    /\ name_match.garbage = given.garbage

GivenToken == SubSeq(given.garbage, 2, Len(given.garbage))

\* C1 as claimed: every canonical name parses back to its room and element
\* with no garbage, and with "_" + token appended parses to the same room
\* and element with garbage "_" + token, for every garbage token that is
\* not itself a structural token.
C1_AsClaimed ==
    pc = "parsed" =>
        \/ given.garbage # None /\ IsStructuralToken(GivenToken)
        \/ Recovered

\* C1 as amended: the same, for every garbage token whose leading
\* "_"-delimited piece is not a structural token.
C1_ParseRoundTrip ==
    pc = "parsed" =>
        \/ given.garbage # None /\ IsStructuralToken(FirstPiece(GivenToken))
        \/ Recovered

C1_Witness ==
    /\ pc = "parsed"
    /\ given.garbage = "_g_11"
    /\ given.element = "Wall_11_Window_11_Opening"
    /\ Recovered

\* C4 as claimed: whenever the name grammar accepts a name with an Element,
\* the prefix grammar yields a group prefix for that Element.
C4_AsClaimed ==
    (pc = "parsed" /\ name_match.matched /\ name_match.element # None) => name_match.group_prefix # None

(***************************************************************************)
(* Scene objects and groups.                                               *)
(***************************************************************************)
Mesh(name) ==
    [name |-> name, type |-> "MESH", alive |-> TRUE, parent |-> 0, colls |-> {},
     zs |-> {}, verts |-> 0, faces |-> 0, vgroups |-> <<>>, uv_maps |-> {},
     location |-> <<0, 0, 0>>, geometry |-> <<0, 0, 0>>, cells |-> {}, ops |-> <<>>]

Alive(objs) == {i \in 1..Len(objs) : objs[i].alive}

\* Blender keeps object names unique: a name another object holds is given
\* with the first free ".001", ".002", ... suffix.
RECURSIVE Decimal(_)
Decimal(n) ==
    IF n < 10 THEN CharAt("0123456789", n + 1)
    ELSE Decimal(n \div 10) \o CharAt("0123456789", (n % 10) + 1)

\* "%02d" % n
Format02d(n) == IF n < 10 THEN "0" \o Decimal(n) ELSE Decimal(n)

\* ".%03d" % k
NumberSuffix(k) ==
    IF k < 10 THEN ".00" \o Decimal(k)
    ELSE IF k < 100 THEN ".0" \o Decimal(k) ELSE "." \o Decimal(k)

UniqueName(objs, i, name) ==
    LET taken(n) == \E j \in Alive(objs) \ {i} : objs[j].name = n
    IN  IF ~taken(name) THEN name
        ELSE name \o NumberSuffix(CHOOSE k \in 1..9 :
                        /\ ~taken(name \o NumberSuffix(k))
                        /\ \A l \in 1..(k - 1) : taken(name \o NumberSuffix(l)))

\* ob.name = name
Rename(objs, i, name) == [objs EXCEPT ![i].name = UniqueName(objs, i, name)]

\* create_collection_if_not_exist
create_collection_if_not_exist(colls, collection_name) ==
    IF \E k \in 1..Len(colls) : colls[k] = collection_name
    THEN colls ELSE Append(colls, collection_name)

\* The object linked to the named group without leaving the others.
link_to_collection(scene, i, collection_name) ==
    [objects |-> [scene.objects EXCEPT ![i].colls = @ \cup {collection_name}],
     collections |-> create_collection_if_not_exist(scene.collections, collection_name)]

\* set_parent_collection: the object leaves every group it is in and is
\* linked to the named one, which is created when missing.
set_parent_collection(scene, i, collection_name) ==
    [objects |-> [scene.objects EXCEPT ![i].colls = {collection_name}],
     collections |-> create_collection_if_not_exist(scene.collections, collection_name)]

(***************************************************************************)
(* group_objects_by_room_and_type.                                         *)
(***************************************************************************)
\* ob.name.replace(garbage, '')
TrimGarbage(name, garbage) == Replace(name, garbage, "")

\* ob.name.replace('SM_', '')
StripMarker(name) == Replace(name, "SM_", "")

\* ob.name.startswith(prefix)
BelongsTo(name, prefix) == StartsWith(name, prefix)

\* The group prefixes found so far, with that of a parsed name.
PrefixesWith(prefixes, nm) ==
    IF /\ nm.matched /\ nm.element # None /\ nm.group_prefix # None
       /\ \A k \in 1..Len(prefixes) : prefixes[k] # nm.group_prefix
    THEN Append(prefixes, nm.group_prefix)
    ELSE prefixes

\* Object i, of parsed name nm, with the garbage trimmed from its name.
Trimmed(objs, i, nm) ==
    IF nm.matched /\ nm.garbage # None
    THEN Rename(objs, i, TrimGarbage(objs[i].name, nm.garbage))
    ELSE objs

\* One pass of the first loop, on object i of parsed name nm.
CollectStep(objs, prefixes, i, nm) ==
    [objects |-> Trimmed(objs, i, nm), prefixes |-> PrefixesWith(prefixes, nm)]

\* The first loop from object i on: the group prefixes in the order found,
\* and the names with their garbage trimmed.
RECURSIVE CollectPrefixes(_, _)
CollectPrefixes(st, i) ==
    IF i > Len(st.objects) THEN st
    ELSE IF ~st.objects[i].alive THEN CollectPrefixes(st, i + 1)
    ELSE CollectPrefixes(
             CollectStep(st.objects, st.prefixes, i, ParseName(st.objects[i].name)),
             i + 1)

\* Object i renamed without its marker and moved to the group of a prefix.
Assigned(scene, i, prefix) ==
    set_parent_collection(
        [objects |-> Rename(scene.objects, i, StripMarker(scene.objects[i].name)),
         collections |-> scene.collections],
        i, prefix)

\* The inner loop of the second loop: object i against prefixes[k..].
RECURSIVE AssignObject(_, _, _, _)
AssignObject(scene, prefixes, i, k) ==
    IF k > Len(prefixes) THEN scene
    ELSE IF BelongsTo(scene.objects[i].name, prefixes[k])
    THEN AssignObject(Assigned(scene, i, prefixes[k]), prefixes, i, k + 1)
    ELSE AssignObject(scene, prefixes, i, k + 1)

\* The second loop from object i on, over the meshes.
RECURSIVE AssignObjects(_, _, _)
AssignObjects(scene, prefixes, i) ==
    IF i > Len(scene.objects) THEN scene
    ELSE IF scene.objects[i].alive /\ scene.objects[i].type = "MESH"
    THEN AssignObjects(AssignObject(scene, prefixes, i, 1), prefixes, i + 1)
    ELSE AssignObjects(scene, prefixes, i + 1)

\* The second loop on the outcome of the first.
AssignFound(first, colls) ==
    AssignObjects([objects |-> first.objects, collections |-> colls],
                  first.prefixes, 1)

GroupedScene(objs, colls) ==
    AssignFound(CollectPrefixes([objects |-> objs, prefixes |-> <<>>], 1), colls)

SetScene(scene) ==
    /\ objects' = scene.objects
    /\ collections' = scene.collections

group_objects_by_room_and_type ==
    /\ pc \in {"group", "slabs_named"}
    /\ Begun("group_objects_by_room_and_type")
    /\ SetScene(GroupedScene(objects, collections))
    /\ pc' = "grouped"
    /\ UNCHANGED <<imported, error, parserVars, collisionVars, recenterVars>>

\* The raw names of the scenes the grouping is run on: no two of them share
\* a canonical name.
RawNames ==
    {"SM_BackPorch_Ceiling_0c_n7s8x13_eOFCzcBLIak",
     "SM_R_Ceiling_g", "SM_R_CeilingTrim_h", "SM_R_Ceiling_01_i",
     "SM_R_Wall_01_j", "SM_R_Wall_01_Window_01_Opening_k",
     "SM_R_Wall_02_Window_01_Opening_01",
     "SM_BSM_Floor_l", "SM_R_Conduit_m", "SM_R_Roof_01_Gable_n", "Slab"}

MaxObjects == 2

ScenesOf(names, n) ==
    {q \in [1..n -> names] : \A a, b \in 1..n : a # b => q[a] # q[b]}

InitGroup ==
    /\ pc = "group"
    /\ \E n \in 1..MaxObjects : \E q \in ScenesOf(RawNames, n) :
          objects = [a \in 1..n |-> Mesh(q[a])]
    /\ imported = objects
    /\ collections = <<>>
    /\ error = None
    /\ IdleParser
    /\ IdleCollision
    /\ IdleLog
    /\ IdleTree
    /\ IdleRecenter

NextGroup == group_objects_by_room_and_type

SpecGroup == InitGroup /\ [][NextGroup]_vars

\* The meshes whose raw name has a room, an element and a group prefix.
Resolvable(i) ==
    LET nm == ParseName(imported[i].name)
    IN  imported[i].type = "MESH" /\ nm.matched /\ nm.element # None
        /\ nm.group_prefix # None

\* C2 as claimed: after grouping, a mesh whose raw name is
\* SM_<Room>_<Element><Garbage> with a resolvable group prefix is named
\* exactly <Room>_<Element>.
C2_AsClaimed ==
    pc = "grouped" =>
        \A i \in 1..Len(imported) :
            Resolvable(i) =>
                LET nm == ParseName(imported[i].name)
                IN  objects[i].name = nm.room \o "_" \o nm.element

\* C3 as claimed: after grouping, a mesh with a resolvable group prefix is
\* a member of the group named by its own group prefix, and of no other.
C3_AsClaimed ==
    pc = "grouped" =>
        \A i \in 1..Len(imported) :
            Resolvable(i) => objects[i].colls = {ParseName(imported[i].name).group_prefix}

(***************************************************************************)
(* assign_slab_names.                                                      *)
(***************************************************************************)
\* slab_min_z = 999999.0
SlabSentinel == 999999

\* ob.name.startswith('Slab')
IsSlab(ob) == ob.alive /\ StartsWith(ob.name, "Slab")

\* The slabs dictionary: the slab objects in the order visited.
SlabsFrom(objs) == SelectSeq([i \in 1..Len(objs) |-> i], LAMBDA i : IsSlab(objs[i]))

\* (slab_ob.matrix_world @ vertex.co)[2], the object's transform a translation
WorldZ(ob, z) == ob.location[3] + z

Least(zs) == CHOOSE z \in zs : \A w \in zs : z <= w

\* The minimum of the sentinel and the heights of the vertices in the
\* object's own frame.
slab_min_local_z(ob) == Least({SlabSentinel} \cup ob.zs)

\* The minimum of the sentinel and the world heights of the vertices.
slab_min_z(ob) == Least({SlabSentinel} \cup {WorldZ(ob, z) : z \in ob.zs})

\* sorted(..., key=lambda kv: kv[1]): the place of slabs[a] in the stable
\* ascending order of the minimum heights.
SortedPlace(objs, slabs, a) ==
    1 + Cardinality({b \in 1..Len(slabs) :
            \/ slab_min_z(objs[slabs[b]]) < slab_min_z(objs[slabs[a]])
            \/ /\ slab_min_z(objs[slabs[b]]) = slab_min_z(objs[slabs[a]])
               /\ b < a})

sorted_slabs(objs, slabs) ==
    [k \in 1..Len(slabs) |->
        slabs[CHOOSE a \in 1..Len(slabs) : SortedPlace(objs, slabs, a) = k]]

\* "SM_House_Floor_%02d_Slab" % slab_index
SlabName(slab_index) == "SM_House_Floor_" \o Format02d(slab_index) \o "_Slab"

\* The renaming loop from place k on.
RECURSIVE RenameSlabs(_, _, _)
RenameSlabs(objs, sorted, k) ==
    IF k > Len(sorted) THEN objs
    ELSE RenameSlabs(Rename(objs, sorted[k], SlabName(k)), sorted, k + 1)

SlabsNamed(objs) == RenameSlabs(objs, sorted_slabs(objs, SlabsFrom(objs)), 1)

assign_slab_names ==
    /\ pc = "slabs"
    /\ Begun("assign_slab_names")
    /\ objects' = SlabsNamed(objects)
    /\ pc' = "slabs_named"
    /\ UNCHANGED <<collections, imported, error, parserVars, collisionVars,
                   recenterVars>>

MaxSlabs == 3
MaxZ == 2
ManySlabs == 10

\* The vertex heights of a slab: none, or a bottom and a top face.
SlabHeights == {{}} \cup {{lo, hi} : lo \in 0..MaxZ, hi \in 0..MaxZ}

\* Live Home 3D exports the slabs as Slab, Slab.001, Slab.002, ...
ExportedSlabName(i) == IF i = 1 THEN "Slab" ELSE "Slab" \o NumberSuffix(i - 1)

ExportedSlab(i, zs) ==
    [Mesh(ExportedSlabName(i)) EXCEPT !.zs = zs, !.location = <<0, 0, -(i % 2)>>]

\* A storey per slab, the storeys listed from a rotating start.
TallHouse(r) ==
    [i \in 1..ManySlabs |-> ExportedSlab(i, {2 * (((i + r) * 3) % (ManySlabs + 1))})]

SlabScenes ==
    UNION {{[i \in 1..n |-> ExportedSlab(i, q[i])] : q \in [1..n -> SlabHeights]} :
           n \in 1..MaxSlabs}
    \cup {TallHouse(r) : r \in 0..ManySlabs}

InitSlab ==
    /\ pc = "slabs"
    /\ \E sc \in SlabScenes : objects = <<Mesh("SM_R_Floor_g")>> \o sc
    /\ imported = objects
    /\ collections = <<>>
    /\ error = None
    /\ IdleParser
    /\ IdleCollision
    /\ IdleLog
    /\ IdleTree
    /\ IdleRecenter

NextSlab == assign_slab_names

SpecSlab == InitSlab /\ [][NextSlab]_vars

FloorSlabNames ==
    <<"SM_House_Floor_01_Slab", "SM_House_Floor_02_Slab", "SM_House_Floor_03_Slab",
      "SM_House_Floor_04_Slab", "SM_House_Floor_05_Slab", "SM_House_Floor_06_Slab",
      "SM_House_Floor_07_Slab", "SM_House_Floor_08_Slab", "SM_House_Floor_09_Slab",
      "SM_House_Floor_10_Slab", "SM_House_Floor_11_Slab", "SM_House_Floor_12_Slab">>

RawSlabs == {i \in 1..Len(imported) : StartsWith(imported[i].name, "Slab")}

HasVertices(i) == imported[i].zs # {}

LowestZ(i) == Least({imported[i].location[3] + z : z \in imported[i].zs})

SlabIndex(i) ==
    CHOOSE k \in 1..Len(FloorSlabNames) : FloorSlabNames[k] = objects[i].name

DistinctLowestZ ==
    /\ \A i \in RawSlabs : HasVertices(i)
    /\ \A i, j \in RawSlabs : i # j => LowestZ(i) # LowestZ(j)

\* C5: after assign_slab_names the N objects whose raw name begins with
\* 'Slab' hold the names SM_House_Floor_01_Slab .. SM_House_Floor_<N>_Slab,
\* one each, no other object is renamed, and when the slabs' minimum world
\* heights are distinct a higher slab has a higher index.
C5_SlabNames ==
    pc = "slabs_named" =>
        /\ \A i \in RawSlabs :
               \E k \in 1..Cardinality(RawSlabs) : objects[i].name = FloorSlabNames[k]
        /\ \A i, j \in RawSlabs : i # j => objects[i].name # objects[j].name
        /\ \A i \in 1..Len(imported) : i \notin RawSlabs => objects[i] = imported[i]
        /\ DistinctLowestZ =>
               \A i, j \in RawSlabs :
                   LowestZ(i) < LowestZ(j) => SlabIndex(i) < SlabIndex(j)

\* A ten-storey house whose first exported slab is the highest: it is
\* given the index 10.
C5_Witness ==
    /\ pc = "slabs_named"
    /\ Cardinality(RawSlabs) = ManySlabs
    /\ DistinctLowestZ
    /\ imported[2].name = "Slab"
    /\ objects[2].name = "SM_House_Floor_10_Slab"

(***************************************************************************)
(* generate_diffuse_uvs and join_objects.  A vertex group is its name and  *)
(* the vertices and faces assigned to it.                                  *)
(***************************************************************************)
continuous_uv_regex_str ==
    Cat(<<Plus(AnyChar), Lit("_"),
          Alt(<<Lit("Wall"), Lit("StairWall"),
                Cat(<<Lit("Roof"), OptD2, Lit("_"),
                      Alt(<<Lit("Gable"), Lit("Side"), Lit("SegmentedSide")>>)>>),
                Lit("Ceiling"), Lit("Floor"), Lit("Slab")>>),
          OptD2,
          Alt(<<Opt(Cat(<<Lit("_Door"), OptD2, Lit("_Opening")>>)),
                Cat(<<Lit("_Opening"), OptD2>>)>>),
          EndOfString>>)

\* regex.match(name) is not None
Matches(r, name) == ReMatch(r, name).ok

Indices(objs) == [i \in 1..Len(objs) |-> i]

\* [o for o in bpy.data.objects if o.type == 'MESH' and continuous_uv_regex.match(o.name)]
continuous_uv_objects(objs) ==
    SelectSeq(Indices(objs),
              LAMBDA i : /\ objs[i].alive /\ objs[i].type = "MESH"
                         /\ Matches(continuous_uv_regex_str, objs[i].name))

\* ob.users_collection[0].name
FirstCollection(ob) == CHOOSE c \in ob.colls : TRUE

continuous_uv_object_names_and_collections(objs, idx) ==
    [k \in 1..Len(idx) |->
        [object_name |-> objs[idx[k]].name,
         collection_name |-> FirstCollection(objs[idx[k]])]]

RECURSIVE SumOver(_, _, _)
SumOver(objs, idx, field) ==
    IF idx = <<>> THEN 0
    ELSE objs[Head(idx)][field] + SumOver(objs, Tail(idx), field)

\* The loop of join_objects: every object gets a vertex group of its own
\* name holding all of its vertices.
Stashed(objs, idx) ==
    [i \in 1..Len(objs) |->
        IF \E k \in 1..Len(idx) : idx[k] = i
        THEN [objs[i] EXCEPT !.vgroups =
                 Append(@, [name |-> objs[i].name, verts |-> objs[i].verts,
                            faces |-> objs[i].faces])]
        ELSE objs[i]]

\* bpy.ops.object.join(): the active object takes the geometry and the
\* vertex groups of the others, which are removed.
JoinedInto(objs, idx) ==
    [i \in 1..Len(objs) |->
        IF i = idx[1]
        THEN [objs[i] EXCEPT !.verts = SumOver(objs, idx, "verts"),
                             !.faces = SumOver(objs, idx, "faces"),
                             !.vgroups = Flat([k \in 1..Len(idx) |-> objs[idx[k]].vgroups]),
                             !.cells = UNION {objs[idx[k]].cells : k \in 1..Len(idx)},
                             !.ops = Append(@, "join")]
        ELSE IF \E k \in 1..Len(idx) : idx[k] = i
        THEN [objs[i] EXCEPT !.alive = FALSE]
        ELSE objs[i]]

\* join_objects: the scene and the object returned, 0 for None.
join_objects(objs, idx) ==
    IF Len(idx) = 0 THEN [objects |-> objs, joined_ob |-> 0]
    ELSE IF Len(idx) = 1 THEN [objects |-> objs, joined_ob |-> idx[1]]
    ELSE [objects |-> JoinedInto(Stashed(objs, idx), idx), joined_ob |-> idx[1]]

\* apply_uv_func: every mesh has the named UV map after it.
apply_uv_func(objs, uv_map_name) ==
    [i \in 1..Len(objs) |->
        IF objs[i].alive /\ objs[i].type = "MESH"
        THEN [objs[i] EXCEPT !.uv_maps = @ \cup {uv_map_name}]
        ELSE objs[i]]

\* joined_ob.vertex_groups.get(object_name): its place, 0 when there is none
VertexGroupPlace(ob, object_name) ==
    IF \E k \in 1..Len(ob.vgroups) : ob.vgroups[k].name = object_name
    THEN CHOOSE k \in 1..Len(ob.vgroups) : ob.vgroups[k].name = object_name
    ELSE 0

\* bpy.ops.mesh.separate on the vertices of group k of the joined object:
\* they leave it for a new object, which is renamed, regrouped and cleared
\* of its vertex groups.
SplitOff(scene, joined_ob, k, pair) ==
    set_parent_collection(
        [objects |->
            Rename(
                Append([scene.objects EXCEPT
                           ![joined_ob].verts = @ - scene.objects[joined_ob].vgroups[k].verts,
                           ![joined_ob].faces = @ - scene.objects[joined_ob].vgroups[k].faces,
                           ![joined_ob].vgroups[k].verts = 0,
                           ![joined_ob].vgroups[k].faces = 0],
                       [scene.objects[joined_ob] EXCEPT
                           !.verts = scene.objects[joined_ob].vgroups[k].verts,
                           !.faces = scene.objects[joined_ob].vgroups[k].faces,
                           !.vgroups = <<>>]),
                Len(scene.objects) + 1, pair.object_name),
         collections |-> scene.collections],
        Len(scene.objects) + 1, pair.collection_name)
    @@ [error |-> None]

\* The splitting loop from pair n on; it ends at the first missing group.
RECURSIVE SplitLoop(_, _, _, _)
SplitLoop(scene, joined_ob, pairs, n) ==
    IF n > Len(pairs) THEN scene
    ELSE IF VertexGroupPlace(scene.objects[joined_ob], pairs[n].object_name) = 0
    THEN [scene EXCEPT !.error = "KeyError"]
    ELSE SplitLoop(
             SplitOff(scene, joined_ob,
                      VertexGroupPlace(scene.objects[joined_ob], pairs[n].object_name),
                      pairs[n]),
             joined_ob, pairs, n + 1)

\* delete_object, unless the run has ended in an error.
DeletedUnlessFailed(scene, i) ==
    IF scene.error # None THEN scene
    ELSE [scene EXCEPT !.objects[i].alive = FALSE]

joined_ob_name == "temp_joined_continuous_objects"

\* generate_diffuse_uvs from the return of join_objects on.
AfterJoin(j, colls, pairs) ==
    IF j.joined_ob = 0
    THEN [objects |-> j.objects, collections |-> colls, error |-> "AttributeError"]
    ELSE DeletedUnlessFailed(
             SplitLoop([objects |-> apply_uv_func(
                                        Rename(j.objects, j.joined_ob, joined_ob_name),
                                        "DiffuseUV"),
                        collections |-> colls, error |-> None],
                       j.joined_ob, pairs, 1),
             j.joined_ob)

DiffuseUVsOf(objs, colls, idx) ==
    AfterJoin(join_objects(objs, idx), colls,
              continuous_uv_object_names_and_collections(objs, idx))

SetOutcome(scene, done) ==
    /\ objects' = scene.objects
    /\ collections' = scene.collections
    /\ error' = scene.error
    /\ pc' = IF scene.error = None THEN done ELSE "aborted"

generate_diffuse_uvs ==
    /\ pc = "uv"
    /\ Begun("generate_diffuse_uvs")
    /\ SetOutcome(DiffuseUVsOf(objects, collections, continuous_uv_objects(objects)),
                  "uv_done")
    /\ UNCHANGED <<imported, parserVars, collisionVars, recenterVars>>

\* The grouped meshes the scenes are made of: name, group, vertices, faces.
GroupedMeshes ==
    {<<"R_Wall_01", "SM_R_Wall_01", 8, 6>>,
     <<"R_Wall_02", "SM_R_Wall_02", 12, 7>>,
     <<"R_Floor", "SM_R_Floor", 4, 1>>,
     <<"R_Wall_01_Door_01_Opening", "SM_R_Wall_01", 16, 10>>,
     <<"R_Wall_01_Window_01_Opening", "SM_R_Wall_01", 20, 11>>,
     <<"R_Post_01", "SM_R_Post_01", 24, 14>>}

GroupedMesh(d) ==
    [Mesh(d[1]) EXCEPT !.colls = {d[2]}, !.verts = d[3], !.faces = d[4]]

MaxUVObjects == 3

RECURSIVE CollectionsOf(_, _)
CollectionsOf(objs, k) ==
    IF k > Len(objs) THEN <<>>
    ELSE create_collection_if_not_exist(CollectionsOf(objs, k + 1),
                                        FirstCollection(objs[Len(objs) + 1 - k]))

InitUV ==
    /\ pc = "uv"
    /\ \E n \in 1..MaxUVObjects : \E q \in ScenesOf(GroupedMeshes, n) :
          objects = [a \in 1..n |-> GroupedMesh(q[a])]
    /\ imported = objects
    /\ collections = CollectionsOf(objects, 1)
    /\ error = None
    /\ IdleParser
    /\ IdleCollision
    /\ IdleLog
    /\ IdleTree
    /\ IdleRecenter

NextUV == generate_diffuse_uvs

SpecUV == InitUV /\ [][NextUV]_vars

\* What the claim compares: how many objects hold each name, group, vertex
\* count and face count.
Census(objs) ==
    LET kinds == {<<objs[i].name, objs[i].colls, objs[i].verts, objs[i].faces>> :
                     i \in Alive(objs)}
    IN  [kd \in kinds |->
            Cardinality({i \in Alive(objs) :
                <<objs[i].name, objs[i].colls, objs[i].verts, objs[i].faces>> = kd})]

ContinuousCount == Len(continuous_uv_objects(imported))

\* C6 as claimed: for a scene with any number of continuous-UV meshes,
\* none and one included, generate_diffuse_uvs completes, the names, groups
\* and vertex and face counts of the objects are as they were, and no
\* temporary joined object is left.
C6_AsClaimed ==
    pc \in {"uv_done", "aborted"} =>
        /\ pc = "uv_done"
        /\ Census(objects) = Census(imported)
        /\ \A i \in Alive(objects) : objects[i].name # joined_ob_name

\* The same for scenes of two or more continuous-UV meshes only.
UVRoundTripOfSeveral ==
    (pc \in {"uv_done", "aborted"} /\ ContinuousCount >= 2) =>
        /\ pc = "uv_done"
        /\ Census(objects) = Census(imported)
        /\ \A i \in Alive(objects) : objects[i].name # joined_ob_name

(***************************************************************************)
(* Collision synthesis.  The geometry of an object is the set of cells it  *)
(* fills and the host operations applied to its mesh, in order.            *)
(***************************************************************************)
GableOrWall ==
    Alt(<<Lit("Wall"), Lit("Post"), Lit("StairWall"),
          Cat(<<Lit("Roof"), OptD2, Lit("_Gable")>>)>>)

basic_collision_regex_str ==
    Cat(<<Plus(AnyChar), Lit("_"), GableOrWall, OptD2, EndOfString>>)

roof_collision_regex_str ==
    Cat(<<Plus(AnyChar), Lit("_"),
          Alt(<<Lit("Ceiling"),
                Cat(<<Lit("Roof"), OptD2, Lit("_"), Opt(Lit("Segmented")), Lit("Side"),
                      Lit("_"), D2>>)>>),
          EndOfString>>)

slab_collision_regex_str ==
    Cat(<<Lit("House_Floor_"), D2, Lit("_Slab"), EndOfString>>)

floor_opening_regex_str ==
    Cat(<<Plus(AnyChar), Lit("_Stairs_Opening"), OptD2, EndOfString>>)

\* A name read as a regular expression: a "." stands for any character,
\* a letter, a digit or an underscore for itself.
NameAsRegex(name) ==
    Cat([i \in 1..Len(name) |->
            IF CharAt(name, i) = "." THEN AnyChar ELSE Lit(CharAt(name, i))])

\* wall_opening_regex_str.replace('$NAME$', parent_ob.name)
wall_opening_regex_str(name) ==
    Cat(<<NameAsRegex(name), Lit("_"),
          Opt(Cat(<<Alt(<<Lit("Door"), Lit("Window")>>), Lit("_"), D2, Lit("_")>>)),
          Lit("Opening"), OptD2, EndOfString>>)

\* [o for o in bpy.data.objects if ob_specific_regex.match(o.name)]
wall_openings_of(objs, parent_ob) ==
    SelectSeq(Indices(objs),
              LAMBDA i : /\ objs[i].alive
                         /\ Matches(wall_opening_regex_str(objs[parent_ob].name),
                                    objs[i].name))

\* do_meshes_overlap: the two objects share a cell
do_meshes_overlap(obj1, obj2) == obj1.cells \cap obj2.cells # {}

\* Every object the floor-opening pattern matches, wherever it is.
floor_openings(objs, collision_ob) ==
    SelectSeq(Indices(objs),
              LAMBDA i : objs[i].alive /\ Matches(floor_opening_regex_str, objs[i].name))

\* [o for o in bpy.data.objects if floor_opening_regex.match(o.name)
\*  and do_meshes_overlap(collision_ob, o)]
floor_openings_that_intersect(objs, collision_ob) ==
    SelectSeq(Indices(objs),
              LAMBDA i : /\ objs[i].alive
                         /\ Matches(floor_opening_regex_str, objs[i].name)
                         /\ do_meshes_overlap(objs[collision_ob], objs[i]))

\* The sources of a collision pass: the meshes a pattern matches.
SourcesOf(objs, r) ==
    SelectSeq(Indices(objs),
              LAMBDA i : objs[i].alive /\ objs[i].type = "MESH" /\ Matches(r, objs[i].name))

\* A host geometry call on object i.  The call named by fail raises, and
\* nothing runs once an exception is under way.
HostCall(scene, i, op, fail) ==
    IF scene.error # None THEN scene
    ELSE IF fail = op THEN [scene EXCEPT !.error = "RuntimeError"]
    ELSE [scene EXCEPT !.objects[i].ops = Append(@, op)]

\* The object a scene's newest object is.
Newest(scene) == Len(scene.objects)

\* src_ob.copy() with a copy of its mesh, parented to src_ob and put in
\* src_ob's first group.
CopyOf(objs, src_ob) ==
    [objs[src_ob] EXCEPT !.name = UniqueName(objs, 0, objs[src_ob].name),
                         !.parent = src_ob,
                         !.colls = {}]

LinkedLike(scene, i, src_ob) ==
    IF scene.objects[src_ob].colls = {} THEN scene
    ELSE set_parent_collection(scene, i, FirstCollection(scene.objects[src_ob]))
         @@ scene

create_inplace_copy_of(scene, src_ob) ==
    IF scene.error # None THEN scene
    ELSE LinkedLike([scene EXCEPT !.objects = Append(@, CopyOf(@, src_ob))],
                    Len(scene.objects) + 1, src_ob)

\* copy_ob.name = src_ob.name + "_blank", without materials and UV maps
Blanked(scene, i, src_ob) ==
    IF scene.error # None THEN scene
    ELSE [scene EXCEPT !.objects =
             [Rename(@, i, scene.objects[src_ob].name \o "_blank")
                 EXCEPT ![i].uv_maps = {}]]

create_blank_copy_of(scene, src_ob) ==
    Blanked(create_inplace_copy_of(scene, src_ob), Len(scene.objects) + 1, src_ob)

\* solidify_subtraction_ob
solidify_subtraction_ob(scene, i, fail) ==
    HostCall(HostCall(HostCall(HostCall(scene, i, "dissolve", fail),
                               i, "hull", fail),
                      i, "solidify", fail),
             i, "hull", fail)

\* subtraction_objects.append(subtraction_ob), with the openings it is made of
Listed(scene, ob, names) ==
    IF scene.error # None THEN scene
    ELSE [scene EXCEPT !.subtraction_objects =
             Append(@, [ob |-> ob, openings |-> names])]

PrefixOrNone(m, name) == IF m.ok THEN GroupText(m, name, "Prefix") ELSE None

\* The key of every multipart opening of a wall taken to be the same.
WallWideKey(name) ==
    IF ReMatch(multipart_opening_regex_str, name).ok THEN "Opening" ELSE None

\* multipart_opening_regex.match(opening.name), then its Prefix group
MultipartKey(name) == PrefixOrNone(ReMatch(multipart_opening_regex_str, name), name)

\* The keys of multipart_openings, in the order first met.
RECURSIVE MultipartKeys(_, _, _)
MultipartKeys(objs, openings, k) ==
    IF k > Len(openings) THEN <<>>
    ELSE IF \/ MultipartKey(objs[openings[k]].name) = None
            \/ \E l \in 1..(k - 1) :
                   MultipartKey(objs[openings[l]].name) = MultipartKey(objs[openings[k]].name)
    THEN MultipartKeys(objs, openings, k + 1)
    ELSE <<MultipartKey(objs[openings[k]].name)>> \o MultipartKeys(objs, openings, k + 1)

\* multipart_openings[prefix]
MultipartOpenings(objs, openings, prefix) ==
    SelectSeq(openings, LAMBDA i : MultipartKey(objs[i].name) = prefix)

NotMultipart(objs, openings) ==
    SelectSeq(openings, LAMBDA i : MultipartKey(objs[i].name) = None)

\* An opening on its own, solidified itself in place of its copy.
CarveAloneInPlace(scene, opening, fail) ==
    Listed(solidify_subtraction_ob(create_inplace_copy_of(scene, opening),
                                   opening, fail),
           Len(scene.objects) + 1, {scene.objects[opening].name})

\* An opening on its own: a solidified copy of it.
CarveAlone(scene, opening, fail) ==
    Listed(solidify_subtraction_ob(create_inplace_copy_of(scene, opening),
                                   Len(scene.objects) + 1, fail),
           Len(scene.objects) + 1, {scene.objects[opening].name})

\* The first loop of carve_openings_in_collision_mesh, from the k-th of the
\* openings that are not multipart.
RECURSIVE CarveEachAlone(_, _, _, _)
CarveEachAlone(scene, openings, k, fail) ==
    IF k > Len(openings) THEN scene
    ELSE CarveEachAlone(CarveAlone(scene, openings[k], fail), openings, k + 1, fail)

RECURSIVE CopyEach(_, _, _)
CopyEach(scene, openings, k) ==
    IF k > Len(openings) THEN scene
    ELSE CopyEach(create_inplace_copy_of(scene, openings[k]), openings, k + 1)

\* The objects of a scene replaced by the outcome of join_objects.
WithJoined(scene, j) == [scene EXCEPT !.objects = j.objects]

\* Openings of one multipart prefix: copies of them, joined into the first.
CarveTogether(scene, copied, first, openings) ==
    IF scene.error # None THEN scene
    ELSE Listed(WithJoined(copied,
                    join_objects(copied.objects,
                                 [k \in 1..Len(openings) |-> first + k - 1])),
                first, {scene.objects[openings[k]].name : k \in 1..Len(openings)})

\* Every group merged and the merged object solidified, its hulls computed
\* over all the parts.
CarveGroupHulled(scene, openings, fail) ==
    solidify_subtraction_ob(
        CarveTogether(scene, CopyEach(scene, openings, 1),
                      Len(scene.objects) + 1, openings),
        Len(scene.objects) + 1, fail)

CarveGroup(scene, openings, fail) ==
    IF Len(openings) = 1 THEN CarveAlone(scene, openings[1], fail)
    ELSE CarveTogether(scene, CopyEach(scene, openings, 1),
                       Len(scene.objects) + 1, openings)

\* The second loop, from the k-th multipart prefix; the original objects
\* are those of the scene the carving started from.
RECURSIVE CarveEachGroup(_, _, _, _, _)
CarveEachGroup(scene, openings, prefixes, k, fail) ==
    IF k > Len(prefixes) THEN scene
    ELSE CarveEachGroup(
             CarveGroup(scene, MultipartOpenings(scene.objects, openings, prefixes[k]),
                        fail),
             openings, prefixes, k + 1, fail)

\* bpy.ops.object.boolean_auto_difference(): the cells of the subtraction
\* object leave the collision object, and the subtraction object is removed.
Difference(scene, collision_ob, subtraction_ob) ==
    IF scene.error # None THEN scene
    ELSE [scene EXCEPT
             !.objects[collision_ob].cells = @ \ scene.objects[subtraction_ob].cells,
             !.objects[subtraction_ob].alive = FALSE]

\* The carving itself, with the one subtraction object.
Subtract(scene, collision_ob, subtraction_ob, fail) ==
    HostCall(
        Difference(
            HostCall(HostCall(scene, subtraction_ob, "remesh", fail),
                     collision_ob, "difference", fail),
            collision_ob, subtraction_ob),
        collision_ob, "remesh", fail)

\* The collision object remeshed whether or not anything was carved.
CarveListedRemeshing(scene, collision_ob, fail) ==
    IF scene.error # None THEN scene
    ELSE IF Len(scene.subtraction_objects) = 0
    THEN HostCall(scene, collision_ob, "remesh", fail)
    ELSE Subtract(
             WithJoined(scene,
                 join_objects(scene.objects,
                              [k \in 1..Len(scene.subtraction_objects) |->
                                  scene.subtraction_objects[k].ob])),
             collision_ob, scene.subtraction_objects[1].ob, fail)

\* if len(subtraction_objects) > 0: join them and carve
CarveListed(scene, collision_ob, fail) ==
    IF scene.error # None \/ Len(scene.subtraction_objects) = 0 THEN scene
    ELSE Subtract(
             WithJoined(scene,
                 join_objects(scene.objects,
                              [k \in 1..Len(scene.subtraction_objects) |->
                                  scene.subtraction_objects[k].ob])),
             collision_ob, scene.subtraction_objects[1].ob, fail)

carve_openings_in_collision_mesh(scene, collision_ob, openings, fail) ==
    IF scene.error # None THEN scene
    ELSE CarveListed(
             CarveEachGroup(
                 CarveEachAlone([scene EXCEPT !.subtraction_objects = <<>>],
                                NotMultipart(scene.objects, openings), 1, fail),
                 openings, MultipartKeys(scene.objects, openings, 1), 1, fail),
             collision_ob, fail)

\* The name the Convex Decomposition add-on gives the k-th convex part of
\* an object.
HullName(name, k) == "UCX_" \o name \o "_" \o Format02d(k)

ConvexPart(objs, ob, k) ==
    [Mesh(UniqueName(objs, 0, HullName(objs[ob].name, k))) EXCEPT
        !.parent = ob, !.colls = objs[ob].colls, !.cells = objs[ob].cells]

RECURSIVE WithConvexParts(_, _, _, _)
WithConvexParts(objs, ob, k, parts) ==
    IF k > parts THEN objs
    ELSE WithConvexParts(Append(objs, ConvexPart(objs, ob, k)), ob, k + 1, parts)

\* decompose_into_convex_parts: the add-on leaves the convex parts as
\* children of the object.
decompose_into_convex_parts(scene, ob, fail, parts) ==
    IF scene.error # None \/ fail = "decompose"
    THEN HostCall(scene, ob, "decompose", fail)
    ELSE [HostCall(scene, ob, "decompose", fail) EXCEPT
             !.objects = WithConvexParts(@, ob, 1, parts)]

\* parent_ob.children
Children(objs, parent_ob) ==
    SelectSeq(Indices(objs), LAMBDA i : objs[i].alive /\ objs[i].parent = parent_ob)

\* One child moved under the grandparent's own parent and renamed.
ReparentedAbove(objs, child_ob, parent_ob, grandparent_ob) ==
    Rename([objs EXCEPT ![child_ob].parent = objs[grandparent_ob].parent],
           child_ob,
           Replace(objs[child_ob].name, objs[parent_ob].name, objs[grandparent_ob].name))

\* One child moved under the grandparent and renamed after it.
Reparented(objs, child_ob, parent_ob, grandparent_ob) ==
    Rename([objs EXCEPT ![child_ob].parent = grandparent_ob],
           child_ob,
           Replace(objs[child_ob].name, objs[parent_ob].name, objs[grandparent_ob].name))

RECURSIVE ReparentEach(_, _, _, _, _)
ReparentEach(objs, children, k, parent_ob, grandparent_ob) ==
    IF k > Len(children) THEN objs
    ELSE ReparentEach(Reparented(objs, children[k], parent_ob, grandparent_ob),
                      children, k + 1, parent_ob, grandparent_ob)

\* reparent_children_to_grandparent; without a grandparent the first
\* child's grandparent_ob.matrix_world raises.
reparent_children_to_grandparent(scene, parent_ob) ==
    IF scene.error # None THEN scene
    ELSE IF Children(scene.objects, parent_ob) = <<>> THEN scene
    ELSE IF scene.objects[parent_ob].parent = 0
    THEN [scene EXCEPT !.error = "AttributeError",
                       !.objects[Children(scene.objects, parent_ob)[1]].parent = 0]
    ELSE [scene EXCEPT !.objects =
             ReparentEach(@, Children(@, parent_ob), 1, parent_ob, @[parent_ob].parent)]

delete_object(scene, ob) ==
    IF scene.error # None THEN scene
    ELSE [scene EXCEPT !.objects[ob].alive = FALSE]

\* The proxy deleted with its children still under it.
DeletedUnpromoted(scene, collision_ob) == delete_object(scene, collision_ob)

\* The end of every pass's loop body.
Promoted(scene, collision_ob) ==
    delete_object(reparent_children_to_grandparent(scene, collision_ob), collision_ob)

CarvedForWall(scene, collision_ob, src_ob, fail) ==
    IF scene.error # None THEN scene
    ELSE carve_openings_in_collision_mesh(scene, collision_ob,
             wall_openings_of(scene.objects, src_ob), fail)

CarvedForSlab(scene, collision_ob, fail) ==
    IF scene.error # None THEN scene
    ELSE carve_openings_in_collision_mesh(scene, collision_ob,
             floor_openings_that_intersect(scene.objects, collision_ob), fail)

\* The loop body of generate_roof_collision.
RoofCollisionOf(scene, src_ob, fail, parts) ==
    Promoted(
        decompose_into_convex_parts(create_blank_copy_of(scene, src_ob),
                                    Len(scene.objects) + 1, fail, parts),
        Len(scene.objects) + 1)

\* The loop body of generate_basic_collision.
BasicCollisionOf(scene, src_ob, fail, parts) ==
    Promoted(
        decompose_into_convex_parts(
            CarvedForWall(
                HostCall(create_blank_copy_of(scene, src_ob),
                         Len(scene.objects) + 1, "hull", fail),
                Len(scene.objects) + 1, src_ob, fail),
            Len(scene.objects) + 1, fail, parts),
        Len(scene.objects) + 1)

\* The loop body of generate_slab_collision.
SlabCollisionOf(scene, src_ob, fail, parts) ==
    Promoted(
        decompose_into_convex_parts(
            CarvedForSlab(
                HostCall(HostCall(create_blank_copy_of(scene, src_ob),
                                  Len(scene.objects) + 1, "remesh", fail),
                         Len(scene.objects) + 1, "resize", fail),
                Len(scene.objects) + 1, fail),
            Len(scene.objects) + 1, fail, parts),
        Len(scene.objects) + 1)

MaxParts == 2

\* The host calls that can raise.
Failures == {"none", "hull", "remesh", "difference", "decompose"}

CurrentScene ==
    [objects |-> objects, collections |-> collections, error |-> None,
     subtraction_objects |-> subtraction_objects]

\* The list comprehension that opens a pass.
StartPass(stage, r, next) ==
    /\ pc = stage
    /\ Begun("generate_" \o stage \o "_collision")
    /\ todo' = SourcesOf(objects, r)
    /\ pc' = IF SourcesOf(objects, r) = <<>> THEN next ELSE stage \o "_loop"
    /\ UNCHANGED <<objects, collections, imported, error, parserVars,
                   subtraction_objects, last_source, exported, recenterVars>>

\* A loop body whose exception is caught and logged: the loop goes on.
EndIterationCaught(scene, stage, next) ==
    /\ objects' = scene.objects
    /\ collections' = scene.collections
    /\ subtraction_objects' = scene.subtraction_objects
    /\ error' = None
    /\ todo' = Tail(todo)
    /\ last_source' = [stage |-> stage, src_ob |-> Head(todo)]
    /\ pc' = IF Tail(todo) = <<>> THEN next ELSE stage \o "_loop"
    /\ UNCHANGED <<imported, parserVars, exported, recenterVars, stages, yielded,
                   parent_collection, treeVars>>

\* One pass of a loop that ends with the scene given.
EndIteration(scene, stage, next) ==
    /\ objects' = scene.objects
    /\ collections' = scene.collections
    /\ subtraction_objects' = scene.subtraction_objects
    /\ error' = scene.error
    /\ todo' = IF scene.error = None THEN Tail(todo) ELSE todo
    /\ last_source' = [stage |-> stage, src_ob |-> Head(todo)]
    /\ pc' = IF scene.error # None THEN "aborted"
             ELSE IF Tail(todo) = <<>> THEN next ELSE stage \o "_loop"
    /\ UNCHANGED <<imported, parserVars, exported, recenterVars, stages, yielded,
                   parent_collection, treeVars>>

(***************************************************************************)
(* The selection while a loop body runs, and the operators the body calls  *)
(* on its source object and its proxy with the selection at each call.     *)
(* The body starts from deselect_all_objects(); focus_on_object_in_viewport*)
(* leaves its object unselected.                                           *)
(***************************************************************************)
NothingSelected == [selected |-> {}, calls |-> <<>>]

\* deselect_all_objects()
Deselected(s) == [s EXCEPT !.selected = {}]

\* ob.select_set(True)
Selecting(s, ob) == [s EXCEPT !.selected = @ \cup {ob}]

\* A bpy.ops operator run for the target object.
Invoked(s, operator, target) ==
    [s EXCEPT !.calls = Append(@, [operator |-> operator, target |-> target,
                                   selected |-> s.selected])]

\* create_blank_copy_of: remove_all_materials and remove_all_uv_maps select
\* the copy.
AfterBlankCopy(s, copy_ob) == Selecting(Selecting(s, copy_ob), copy_ob)

\* remesh up to the modifier it applies
Remeshing(s, ob) == Invoked(Selecting(Deselected(s), ob), "remesh", ob)

\* make_convex_hull up to bpy.ops.mesh.convex_hull
Hulling(s, ob) == Invoked(Selecting(Deselected(s), ob), "convex_hull", ob)

\* translate_origin_to_midpoint
translate_origin_to_midpoint(s, ob) == Invoked(Selecting(s, ob), "origin_set", ob)

\* translate_origin_to_world_origin
translate_origin_to_world_origin(s, ob) ==
    Invoked(Invoked(Selecting(s, ob), "translate", ob), "origin_set", ob)

\* decompose_into_convex_parts up to the add-on's operator; the carving
\* before it, or the copy alone, has left nothing else selected.
Decomposing(s, ob) == Invoked(Selecting(Deselected(s), ob), "convex_decomposition_run", ob)

RoofOperatorCalls(src_ob, collision_ob) ==
    Decomposing(AfterBlankCopy(NothingSelected, collision_ob), collision_ob).calls

BasicOperatorCalls(src_ob, collision_ob, fail, raised) ==
    IF fail = "hull" \/ (raised /\ fail # "decompose")
    THEN Hulling(AfterBlankCopy(NothingSelected, collision_ob), collision_ob).calls
    ELSE Decomposing(Deselected(Hulling(AfterBlankCopy(NothingSelected, collision_ob),
                                        collision_ob)),
                     collision_ob).calls

\* The height correction: the four origin calls after the remesh.
HeightCorrected(s, src_ob, collision_ob) ==
    translate_origin_to_world_origin(
        translate_origin_to_world_origin(
            translate_origin_to_midpoint(
                translate_origin_to_midpoint(Deselected(s), src_ob),
                collision_ob),
            src_ob),
        collision_ob)

SlabOperatorCalls(src_ob, collision_ob, fail, raised) ==
    IF fail = "remesh"
    THEN Remeshing(AfterBlankCopy(NothingSelected, collision_ob), collision_ob).calls
    ELSE IF raised /\ fail # "decompose"
    THEN HeightCorrected(Remeshing(AfterBlankCopy(NothingSelected, collision_ob),
                                   collision_ob),
                         src_ob, collision_ob).calls
    ELSE Decomposing(
             HeightCorrected(Remeshing(AfterBlankCopy(NothingSelected, collision_ob),
                                       collision_ob),
                             src_ob, collision_ob),
             collision_ob).calls

generate_roof_collision == StartPass("roof", roof_collision_regex_str, "basic")

roof_collision_of_next ==
    /\ pc = "roof_loop"
    /\ \E fail \in Failures, parts \in 0..MaxParts :
          EndIteration(RoofCollisionOf(CurrentScene, Head(todo), fail, parts),
                       "roof", "basic")
    /\ operator_calls' = RoofOperatorCalls(Head(todo), Len(objects) + 1)

generate_basic_collision == StartPass("basic", basic_collision_regex_str, "slab")

basic_collision_of_next ==
    /\ pc = "basic_loop"
    /\ \E fail \in Failures, parts \in 0..MaxParts :
          /\ EndIteration(BasicCollisionOf(CurrentScene, Head(todo), fail, parts),
                          "basic", "slab")
          /\ operator_calls' = BasicOperatorCalls(Head(todo), Len(objects) + 1, fail,
                                                  error' # None)

generate_slab_collision == StartPass("slab", slab_collision_regex_str, "export")

slab_collision_of_next ==
    /\ pc = "slab_loop"
    /\ \E fail \in Failures, parts \in 0..MaxParts :
          /\ EndIteration(SlabCollisionOf(CurrentScene, Head(todo), fail, parts),
                          "slab", "export")
          /\ operator_calls' = SlabOperatorCalls(Head(todo), Len(objects) + 1, fail,
                                                 error' # None)

\* One pass of the export loop: bpy.ops.export_scene.fbx for a collection,
\* a RuntimeError of the exporter caught and printed.
ExportAttempt(coll, ok) ==
    [collection |-> coll, filepath |-> coll \o ".fbx", ok |-> ok]

\* The loop were the exporter's RuntimeError not caught.
RECURSIVE ExportUntilError(_, _, _)
ExportUntilError(colls, oks, k) ==
    IF k > Len(colls) THEN <<>>
    ELSE IF ~oks[k] THEN <<ExportAttempt(colls[k], FALSE)>>
    ELSE <<ExportAttempt(colls[k], TRUE)>> \o ExportUntilError(colls, oks, k + 1)

\* for coll in bpy.data.collections, from the k-th collection on
RECURSIVE ExportEach(_, _, _)
ExportEach(colls, oks, k) ==
    IF k > Len(colls) THEN <<>>
    ELSE <<ExportAttempt(colls[k], oks[k])>> \o ExportEach(colls, oks, k + 1)

\* export_all_collections_to_fbx: every group is tried, a RuntimeError of
\* the exporter is caught.
export_all_collections_to_fbx ==
    /\ pc = "export"
    /\ Begun("export_all_collections_to_fbx")
    /\ \E oks \in [1..Len(collections) -> BOOLEAN] :
          exported' = ExportEach(collections, oks, 1)
    /\ pc' = "done"
    /\ UNCHANGED <<objects, collections, imported, error, parserVars, todo,
                   subtraction_objects, last_source, recenterVars>>

\* The grouped meshes of the scenes collision is made for: name, group
\* and cells, in the order the scene lists them.
Wall01 == <<"R_Wall_01", "SM_R_Wall_01", {1, 2, 3}>>

OtherMeshes ==
    <<<<"R_Wall_01_Window_01_Opening", "SM_R_Wall_01", {2}>>,
      <<"R_Wall_01_Door_01_Opening_01", "SM_R_Wall_01", {1}>>,
      <<"R_Wall_01_Door_01_Opening_02", "SM_R_Wall_01", {1}>>,
      <<"R_Wall_01_Window_02_Opening_01", "SM_R_Wall_01", {3}>>,
      <<"R_Wall_01_Opening", "SM_R_Wall_01", {3}>>,
      <<"R_Wall_02", "SM_R_Wall_02", {4, 5}>>,
      <<"R_Wall_02_Door_01_Opening", "SM_R_Wall_02", {4}>>,
      <<"R_Post_01", "SM_R_Post_01", {6}>>,
      <<"R_Ceiling", "SM_R_Ceiling", {7}>>,
      <<"House_Floor_01_Slab", "SM_House_Floor_01", {8, 9}>>,
      <<"R_Stairs_Opening", "SM_R_Stairs", {9}>>,
      <<"Q_Stairs_Opening", "SM_Q_Stairs", {10}>>>>

CellMesh(d) == [Mesh(d[1]) EXCEPT !.colls = {d[2]}, !.cells = d[3]]

MaxExtras == 3

\* The meshes of a choice, in the order of OtherMeshes.
Chosen(choice) ==
    [k \in 1..Len(SelectSeq(Indices(OtherMeshes), LAMBDA i : i \in choice)) |->
        CellMesh(OtherMeshes[SelectSeq(Indices(OtherMeshes), LAMBDA i : i \in choice)[k]])]

InitCollision ==
    /\ pc = "roof"
    /\ \E choice \in SUBSET (1..Len(OtherMeshes)) :
          /\ Cardinality(choice) <= MaxExtras
          /\ objects = <<CellMesh(Wall01)>> \o Chosen(choice)
    /\ imported = objects
    /\ collections = CollectionsOf(objects, 1)
    /\ error = None
    /\ IdleParser
    /\ IdleCollision
    /\ IdleLog
    /\ IdleTree
    /\ IdleRecenter

NextCollision ==
    \/ generate_roof_collision
    \/ roof_collision_of_next
    \/ generate_basic_collision
    \/ basic_collision_of_next
    \/ generate_slab_collision
    \/ slab_collision_of_next
    \/ export_all_collections_to_fbx

SpecCollision == InitCollision /\ [][NextCollision]_vars

EndsWith(s, suffix) ==
    Len(suffix) <= Len(s) /\ SubSeq(s, Len(s) - Len(suffix) + 1, Len(s)) = suffix

IsTwoDigits(s) == Len(s) = 2 /\ CharAt(s, 1) \in Digits /\ CharAt(s, 2) \in Digits

\* A name that ends in a two-digit numbered suffix after '...Opening'.
IsNumberedOpening(name) ==
    /\ Len(name) > Len("Opening_00")
    /\ CharAt(name, Len(name) - 2) = "_"
    /\ IsTwoDigits(SubSeq(name, Len(name) - 1, Len(name)))
    /\ EndsWith(SubSeq(name, 1, Len(name) - 3), "Opening")

\* The '...Opening' a numbered opening's name has before its number.
OpeningStem(name) == SubSeq(name, 1, Len(name) - 3)

\* The openings of a wall: its name, then _Opening, _Door_NN_Opening or
\* _Window_NN_Opening, then an optional _NN.
IsOpeningOf(name, wall) ==
    /\ StartsWith(name, wall \o "_")
    /\ LET rest == SubSeq(name, Len(wall) + 2, Len(name))
           kind == IF IsNumberedOpening(name) THEN SubSeq(rest, 1, Len(rest) - 3)
                   ELSE rest
       IN  \/ kind = "Opening"
           \/ /\ Len(kind) = Len("Door_00_Opening")
              /\ StartsWith(kind, "Door_") /\ EndsWith(kind, "_Opening")
              /\ IsTwoDigits(SubSeq(kind, 6, 7))
           \/ /\ Len(kind) = Len("Window_00_Opening")
              /\ StartsWith(kind, "Window_") /\ EndsWith(kind, "_Opening")
              /\ IsTwoDigits(SubSeq(kind, 8, 9))

Candidates ==
    {imported[i].name : i \in {j \in 1..Len(imported) :
        IsOpeningOf(imported[j].name, imported[last_source.src_ob].name)}}

Groups == {subtraction_objects[k].openings : k \in 1..Len(subtraction_objects)}

StrandedProxies == {i \in Alive(objects) : EndsWith(objects[i].name, "_blank")}

\* The objects made on behalf of a source object: its proxy and the convex
\* parts under it.
MadeFor(src_ob) == {i \in Alive(objects) : i > Len(imported) /\ objects[i].parent = src_ob}

ConvexParts == {i \in Alive(objects) : StartsWith(objects[i].name, "UCX_")}

\* The source objects a convex part is named after.
NamedAfter(i) ==
    {s \in 1..Len(imported) :
        \E k \in 1..MaxParts : objects[i].name = HullName(imported[s].name, k)}

\* C9 as claimed: every convex part is parented under the parent its source
\* object had before collision synthesis.
C9_AsClaimed ==
    \A i \in ConvexParts : \A s \in NamedAfter(i) : objects[i].parent = imported[s].parent

\* C9 as amended: every convex part is parented under the source object
\* itself, the proxy's parent; none is left under a proxy, and its name is
\* the add-on's name for it with the proxy's name replaced by the source
\* object's.
C9_PartsUnderSource ==
    \A i \in ConvexParts :
        /\ objects[i].parent \in 1..Len(imported)
        /\ objects[objects[i].parent].alive
        /\ ~EndsWith(objects[objects[i].parent].name, "_blank")
        /\ NamedAfter(i) = {objects[i].parent}

\* The first wall has its two convex parts and its proxy is gone.
C9_Witness ==
    /\ last_source = [stage |-> "basic", src_ob |-> 1]
    /\ error = None
    /\ {objects[i].name : i \in MadeFor(1)} = {"UCX_R_Wall_01_01", "UCX_R_Wall_01_02"}
    /\ StrandedProxies = {}

(***************************************************************************)
(* translate_origin_of_all_objects_to_world_origin.  Coordinates are       *)
(* floats: whole numbers here, exact below FloatExact in magnitude and     *)
(* rounded to an even number from there on, so that the order of a sum     *)
(* shows in its result.                                                    *)
(***************************************************************************)
FloatExact == 4

Abs(x) == IF x < 0 THEN -x ELSE x

Round(x) == IF Abs(x) < FloatExact THEN x
            ELSE IF x < 0 THEN -(2 * ((-x) \div 2)) ELSE 2 * (x \div 2)

FloatAdd(a, b) == Round(a + b)

FloatSub(a, b) == Round(a - b)

FloatDiv(a, n) == IF a < 0 THEN -Round((-a) \div n) ELSE Round(a \div n)

VectorAdd(u, v) == [k \in 1..3 |-> FloatAdd(u[k], v[k])]

VectorSub(u, v) == [k \in 1..3 |-> FloatSub(u[k], v[k])]

VectorDiv(u, n) == [k \in 1..3 |-> FloatDiv(u[k], n)]

\* bpy.ops.object.select_by_type(type='MESH'); bpy.context.selected_objects
SelectedMeshes(objs) ==
    SelectSeq(Indices(objs), LAMBDA i : objs[i].alive /\ objs[i].type = "MESH")

\* sum([o.matrix_world.translation for o in obs], Vector()), from the k-th
RECURSIVE SumOfLocations(_, _, _, _)
SumOfLocations(objs, obs, k, acc) ==
    IF k > Len(obs) THEN acc
    ELSE SumOfLocations(objs, obs, k + 1, VectorAdd(acc, objs[obs[k]].location))

MeanOfLocations(objs, obs) ==
    VectorDiv(SumOfLocations(objs, obs, 1, <<0, 0, 0>>), Len(obs))

\* The mean of the locations, whatever the operator has set.
MeanCenter(objs, obs, fixed) == MeanOfLocations(objs, obs)

\* scene_center
SceneCenter(objs, obs, fixed) ==
    IF ~fixed.is_set THEN MeanOfLocations(objs, obs) ELSE fixed.at

\* cursor.location = scene_center; cursor.location.z = 0
CursorAt(scene_center) == <<scene_center[1], scene_center[2], 0>>

\* ob.location = ob.location - cursor.location, then the origin set to the
\* object's own median.
ShiftedToMedian(ob, cursor) ==
    [ob EXCEPT !.location = VectorAdd(VectorSub(ob.location, cursor), ob.geometry),
               !.geometry = <<0, 0, 0>>]

\* ob.location = ob.location - cursor.location, then the origin set to the
\* cursor at (0, 0, 0): the mesh keeps its place in the world.
Shifted(ob, cursor) ==
    [ob EXCEPT !.location = <<0, 0, 0>>,
               !.geometry = VectorAdd(VectorSub(ob.location, cursor), ob.geometry)]

ShiftedAll(objs, cursor) ==
    [i \in 1..Len(objs) |-> IF objs[i].alive THEN Shifted(objs[i], cursor) ELSE objs[i]]

Recentered(objs, fixed) ==
    ShiftedAll(objs, CursorAt(SceneCenter(objs, SelectedMeshes(objs), fixed)))

\* The function without its assertion: an empty selection is let through.
translate_origin_unasserted ==
    /\ pc = "recenter"
    /\ Begun("translate_origin_of_all_objects_to_world_origin")
    /\ IF SelectedMeshes(objects) = <<>>
       THEN UNCHANGED <<objects, twin>>
       ELSE /\ objects' = Recentered(objects, fbx_fixed_scene_center)
            /\ twin' = Recentered(twin, fbx_fixed_scene_center)
    /\ pc' = "recentered"
    /\ UNCHANGED <<collections, imported, error, parserVars, collisionVars,
                   fbx_fixed_scene_center>>

\* The function on a scene and on its twin.  assert n
translate_origin_of_all_objects_to_world_origin ==
    /\ pc = "recenter"
    /\ Begun("translate_origin_of_all_objects_to_world_origin")
    /\ IF SelectedMeshes(objects) = <<>>
       THEN /\ error' = "AssertionError"
            /\ pc' = "aborted"
            /\ UNCHANGED <<objects, twin>>
       ELSE /\ objects' = Recentered(objects, fbx_fixed_scene_center)
            /\ twin' = Recentered(twin, fbx_fixed_scene_center)
            /\ pc' = "recentered"
            /\ UNCHANGED error
    /\ UNCHANGED <<collections, imported, parserVars, collisionVars,
                   fbx_fixed_scene_center>>

MaxRecenterObjects == 3

Locations == {<<0, 0, 0>>, <<1, 2, 1>>, <<5, -3, 2>>, <<-6, 1, 0>>}

FixedCenters == {<<0, 0, 0>>, <<2, 1, 3>>, <<5, -3, 2>>}

RecenterNames == <<"R_Wall_01", "R_Floor", "R_Ceiling", "R_Post_01">>

PlacedMesh(i, location) ==
    [Mesh(RecenterNames[i]) EXCEPT !.location = location, !.geometry = <<1, 1, i>>]

Orders(n) == {f \in [1..n -> 1..n] : \A a, b \in 1..n : a # b => f[a] # f[b]}

InitRecenter ==
    /\ pc = "recenter"
    /\ \E n \in 0..MaxRecenterObjects :
          /\ \E q \in [1..n -> Locations] :
                objects = [i \in 1..n |-> PlacedMesh(i, q[i])]
          /\ \E f \in Orders(n) : twin = [i \in 1..n |-> objects[f[i]]]
    /\ fbx_fixed_scene_center \in {NoFixedCenter} \cup {FixedCenter(c) : c \in FixedCenters}
    /\ imported = objects
    /\ collections = <<>>
    /\ error = None
    /\ IdleParser
    /\ IdleCollision
    /\ IdleLog
    /\ IdleTree

NextRecenter == translate_origin_of_all_objects_to_world_origin

SpecRecenter == InitRecenter /\ [][NextRecenter]_vars

\* Where an object ends up when the scene centre is the given point.
ExpectedGeometry(ob, center) ==
    [k \in 1..3 |->
        Round(Round(ob.location[k] - (IF k = 3 THEN 0 ELSE center[k])) + ob.geometry[k])]

SameObjects(objs1, objs2) ==
    /\ Len(objs1) = Len(objs2)
    /\ \A i \in 1..Len(objs1) : \E j \in 1..Len(objs2) : objs2[j] = objs1[i]

\* C10: with a fixed scene centre set, recentering a scene and its twin,
\* which lists the same objects in another order, leaves the same objects:
\* each has its origin at the world origin and its geometry moved by the
\* fixed centre with Z pinned to 0, whatever the other objects are.
C10_FixedCenterDeterministic ==
    (pc = "recentered" /\ fbx_fixed_scene_center.is_set) =>
        /\ SameObjects(objects, twin)
        /\ \A i \in 1..Len(objects) :
               /\ objects[i].location = <<0, 0, 0>>
               /\ objects[i].geometry =
                      ExpectedGeometry(imported[i], fbx_fixed_scene_center.at)

\* Three objects, the twin in the reverse order, and a fixed centre that is
\* not the mean of their locations.
C10_Witness ==
    /\ pc = "recentered"
    /\ fbx_fixed_scene_center = FixedCenter(<<2, 1, 3>>)
    /\ Len(objects) = 3
    /\ \A i \in 1..3 : twin[i] = objects[4 - i]
    /\ imported[1].location = <<5, -3, 2>>
    /\ imported[2].location = <<1, 2, 1>>
    /\ objects[1].geometry = <<4, -3, 3>>

(***************************************************************************)
(* The script from import to export: cleanup_scene, setup_uvs,             *)
(* generate_collision and export_all_collections_to_fbx, each function     *)
(* they call an action.  Shading and the test materials are not part of    *)
(* the state.                                                              *)
(***************************************************************************)
unwanted_element_regex_str ==
    Cat(<<Plus(AnyChar),
          Alt(<<Cat(<<Lit("_"), Alt(<<Lit("Door"), Lit("Window")>>), Lit("_"), D2>>),
                Cat(<<Lit("Placeholder"), Star(AnyChar)>>)>>),
          EndOfString>>)

\* matrix_world.translation: the location carried through the parents
RECURSIVE WorldLocation(_, _)
WorldLocation(objs, i) ==
    IF objs[i].parent = 0 THEN objs[i].location
    ELSE VectorAdd(WorldLocation(objs, objs[i].parent), objs[i].location)

\* parent_clear(type='CLEAR_KEEP_TRANSFORM') on the meshes: each keeps its
\* place in the world as its own location.
ParentsCleared(objs) ==
    [i \in 1..Len(objs) |->
        IF objs[i].alive /\ objs[i].type = "MESH"
        THEN [objs[i] EXCEPT !.parent = 0, !.location = WorldLocation(objs, i)]
        ELSE objs[i]]

\* delete() on the objects that are no meshes.  A child left under a
\* deleted parent loses the link and with it the parent's transform.
NonMeshesDeleted(objs) ==
    [i \in 1..Len(objs) |->
        IF ~objs[i].alive THEN objs[i]
        ELSE IF objs[i].type # "MESH" THEN [objs[i] EXCEPT !.alive = FALSE]
        ELSE IF objs[i].parent # 0 /\ objs[objs[i].parent].type # "MESH"
        THEN [objs[i] EXCEPT !.parent = 0]
        ELSE objs[i]]

\* The two operator calls the other way round.
DeletedThenCleared(objs) == ParentsCleared(NonMeshesDeleted(objs))

\* Lines 257-261: the parents are cleared, then the non-meshes deleted.
WithoutNonMeshes(objs) == NonMeshesDeleted(ParentsCleared(objs))

remove_unwanted_objects_by_type ==
    /\ pc = "remove_by_type"
    /\ Begun("remove_unwanted_objects_by_type")
    /\ objects' = WithoutNonMeshes(objects)
    /\ pc' = "slabs"
    /\ UNCHANGED <<collections, imported, error, parserVars, collisionVars,
                   recenterVars>>

\* [o for o in bpy.data.objects if unwanted_element_regex.match(o.name)]
unwanted_objects(objs) ==
    SelectSeq(Indices(objs),
              LAMBDA i : objs[i].alive /\ Matches(unwanted_element_regex_str, objs[i].name))

\* bpy.ops.object.delete() on the objects listed
Deleted(objs, obs) ==
    [i \in 1..Len(objs) |->
        IF \E k \in 1..Len(obs) : obs[k] = i
        THEN [objs[i] EXCEPT !.alive = FALSE] ELSE objs[i]]

\* The exclusion pattern tried on the names as they are before grouping.
remove_unwanted_objects_by_raw_name ==
    /\ pc = "slabs_named"
    /\ Begun("remove_unwanted_objects_by_name")
    /\ objects' = Deleted(objects, unwanted_objects(objects))
    /\ pc' = "group"
    /\ UNCHANGED <<collections, imported, error, parserVars, collisionVars,
                   recenterVars>>

remove_unwanted_objects_by_name ==
    /\ pc = "grouped"
    /\ Begun("remove_unwanted_objects_by_name")
    /\ objects' = Deleted(objects, unwanted_objects(objects))
    /\ pc' = "recenter"
    /\ UNCHANGED <<collections, imported, error, parserVars, collisionVars,
                   recenterVars>>

\* simplify_geometry: tris_convert_to_quads, remove_doubles and the split
\* normals cleared on every mesh.  The meshes here have no pair of
\* triangles to merge and no doubled vertex: their counts stay.
simplify_geometry ==
    /\ pc = "recentered"
    /\ Begun("simplify_geometry")
    /\ pc' = "uv"
    /\ UNCHANGED <<objects, collections, imported, error, parserVars, collisionVars,
                   recenterVars>>

generate_lightmap_uvs ==
    /\ pc = "uv_done"
    /\ Begun("generate_lightmap_uvs")
    /\ objects' = apply_uv_func(objects, "Lightmap")
    /\ pc' = "roof"
    /\ UNCHANGED <<collections, imported, error, parserVars, collisionVars,
                   recenterVars>>

\* What an import holds: name, type, the parent's name and the location.
ImportedObjects ==
    <<<<"Root", "EMPTY", None, <<1, 1, 0>>>>,
      <<"SM_R_Wall_01_j", "MESH", "Root", <<0, 0, 0>>>>,
      <<"SM_R_Floor_l", "MESH", "Root", <<1, 0, 0>>>>,
      <<"SM_R_Ceiling_g", "MESH", "Root", <<1, 0, 2>>>>,
      <<"Slab", "MESH", None, <<0, 1, 0>>>>,
      <<"SM_R_Wall_01_Window_01_m", "MESH", "Root", <<0, 0, 1>>>>,
      <<"SM_R_Wall_01_Window_01_Opening_k", "MESH", "Root", <<0, 0, 1>>>>,
      <<"SM_R_Post_01_p", "MESH", None, <<2, 2, 0>>>>>>

MaxImported == 3

\* The place of the object of a name in a scene, 0 when it is not there.
PlaceOf(names, name) ==
    IF \E k \in 1..Len(names) : names[k] = name
    THEN CHOOSE k \in 1..Len(names) : names[k] = name ELSE 0

\* The objects of a choice, in the order of ImportedObjects.
ImportOf(choice) ==
    LET picked == SelectSeq(Indices(ImportedObjects), LAMBDA i : i \in choice)
        names == [k \in 1..Len(picked) |-> ImportedObjects[picked[k]][1]]
    IN  [k \in 1..Len(picked) |->
            [Mesh(names[k]) EXCEPT
                !.type = ImportedObjects[picked[k]][2],
                !.parent = PlaceOf(names, ImportedObjects[picked[k]][3]),
                !.location = ImportedObjects[picked[k]][4],
                !.zs = {0, 1}, !.verts = 8, !.faces = 6]]

InitPipeline ==
    /\ pc = "remove_by_type"
    /\ \E choice \in SUBSET (1..Len(ImportedObjects)) :
          /\ Cardinality(choice) <= MaxImported
          /\ objects = ImportOf(choice)
    /\ imported = objects
    /\ collections = <<>>
    /\ error = None
    /\ IdleParser
    /\ IdleCollision
    /\ IdleLog
    /\ IdleTree
    /\ IdleRecenter

\* cleanup_scene(); setup_uvs(); generate_collision();
\* export_all_collections_to_fbx()
NextPipeline ==
    \/ remove_unwanted_objects_by_type
    \/ assign_slab_names
    \/ group_objects_by_room_and_type
    \/ remove_unwanted_objects_by_name
    \/ translate_origin_of_all_objects_to_world_origin
    \/ simplify_geometry
    \/ generate_diffuse_uvs
    \/ generate_lightmap_uvs
    \/ generate_roof_collision
    \/ roof_collision_of_next
    \/ generate_basic_collision
    \/ basic_collision_of_next
    \/ generate_slab_collision
    \/ slab_collision_of_next
    \/ export_all_collections_to_fbx

SpecPipeline == InitPipeline /\ [][NextPipeline]_vars

\* The functions in the order cleanup_scene, setup_uvs, generate_collision
\* and the script's last lines call them.
StageOrder ==
    <<"remove_unwanted_objects_by_type", "assign_slab_names",
      "group_objects_by_room_and_type", "remove_unwanted_objects_by_name",
      "translate_origin_of_all_objects_to_world_origin", "simplify_geometry",
      "generate_diffuse_uvs", "generate_lightmap_uvs",
      "generate_roof_collision", "generate_basic_collision",
      "generate_slab_collision", "export_all_collections_to_fbx">>

\* C11: at every moment of every run the functions called so far are the
\* first ones of the fixed order, each once: non-mesh removal, slab names,
\* grouping, removal by name, recentering, simplification, the UV maps, the
\* three collision passes, export.  So the exclusion, continuous-UV and
\* collision patterns are tried only after grouping has returned and export
\* comes after the last collision pass; a run that reaches its end has
\* called every one of them, and only an exception cuts the order short.
C11_StagesInOrder ==
    /\ Len(stages) <= Len(StageOrder)
    /\ stages = SubSeq(StageOrder, 1, Len(stages))
    /\ pc = "done" => stages = StageOrder

\* A run to the end in which a ceiling, a wall and a floor were grouped,
\* mapped and given collision, and their three groups exported.
C11_Witness ==
    /\ pc = "done"
    /\ stages = StageOrder
    /\ Len(exported) = 3
    /\ \E i \in Alive(objects) : objects[i].name = "UCX_R_Wall_01_01"
    /\ \E i \in Alive(objects) : objects[i].name = "UCX_R_Ceiling_01"

\* A function that looks its objects up by a pattern is about to run and
\* no object matches.
AtZeroMatches ==
    \/ pc = "slabs" /\ SlabsFrom(objects) = <<>>
    \/ pc = "grouped" /\ unwanted_objects(objects) = <<>>
    \/ pc = "uv" /\ continuous_uv_objects(objects) = <<>>
    \/ pc = "roof" /\ SourcesOf(objects, roof_collision_regex_str) = <<>>
    \/ pc = "basic" /\ SourcesOf(objects, basic_collision_regex_str) = <<>>
    \/ pc = "slab" /\ SourcesOf(objects, slab_collision_regex_str) = <<>>

\* C12 as claimed: assign_slab_names, remove_unwanted_objects_by_name,
\* generate_diffuse_uvs and the three collision passes return without an
\* exception when no object matches their pattern, and the script goes on
\* to the next function.
C12_AsClaimed ==
    [][AtZeroMatches => (error' = None /\ pc' # "aborted")]_vars

\* C13: when recentering starts on a scene without a mesh its assertion
\* fails and the run is over: the step ends with AssertionError and leaves
\* every object as it was, and no function is called after an exception.
C13_NoMeshAborts ==
    [][/\ (pc = "recenter" /\ SelectedMeshes(objects) = <<>>) =>
              /\ pc' = "aborted"
              /\ error' = "AssertionError"
              /\ objects' = objects
       /\ pc # "aborted"
       /\ pc' = "aborted" => stages' = SubSeq(StageOrder, 1, Len(stages'))]_vars

\* The one mesh of the import was a window that removal by name deleted:
\* the assertion ended the run at recentering, the fifth function.
C13_Witness ==
    /\ pc = "aborted"
    /\ error = "AssertionError"
    /\ stages = SubSeq(StageOrder, 1, 5)
    /\ Len(objects) = 2
    /\ imported[2].name = "SM_R_Wall_01_Window_01_m"
    /\ objects[2].location = <<1, 1, 1>>
    /\ Alive(objects) = {}

(***************************************************************************)
(* set_parent_collection called on its own, on any object with any name,   *)
(* any number of times.                                                    *)
(***************************************************************************)
MaxLinked == 2

CollectionNames == {"Collection", "SM_R_Wall_01", "SM_R_Floor"}

\* The groups a file can hold before the calls.
CollectionsBefore == {<<>>, <<"Collection">>, <<"Collection", "SM_R_Wall_01">>}

InitCollections ==
    /\ pc = "link"
    /\ collections \in CollectionsBefore
    /\ \E n \in 1..MaxLinked :
          \E q \in [1..n -> SUBSET {collections[k] : k \in 1..Len(collections)}] :
              objects = [i \in 1..n |-> [Mesh(RecenterNames[i]) EXCEPT !.colls = q[i]]]
    /\ imported = objects
    /\ error = None
    /\ IdleParser
    /\ IdleCollision
    /\ IdleRecenter
    /\ IdleTree
    /\ stages = <<>>
    /\ operator_calls = <<>>
    /\ yielded = <<>>
    /\ parent_collection = [i \in 1..Len(objects) |-> None]

\* set_parent_collection(ob, collection_name)
set_parent_collection_of ==
    /\ pc = "link"
    /\ \E ob \in 1..Len(objects), collection_name \in CollectionNames :
          /\ SetScene(set_parent_collection(
                 [objects |-> objects, collections |-> collections],
                 ob, collection_name))
          /\ parent_collection' = [parent_collection EXCEPT ![ob] = collection_name]
    /\ UNCHANGED <<pc, imported, error, parserVars, collisionVars, recenterVars,
                   stages, operator_calls, yielded, treeVars>>

NextCollections == set_parent_collection_of

SpecCollections == InitCollections /\ [][NextCollections]_vars

\* C14: after any calls of set_parent_collection no two groups have the
\* same name, and every object a call was made on is in one group only,
\* the existing group named in the last call made on it.
C14_ExclusiveMembership ==
    /\ \A a, b \in 1..Len(collections) : a # b => collections[a] # collections[b]
    /\ \A ob \in 1..Len(parent_collection) :
          parent_collection[ob] # None =>
              /\ objects[ob].colls = {parent_collection[ob]}
              /\ \E k \in 1..Len(collections) : collections[k] = parent_collection[ob]

\* An object that was in two groups is in a third, which the call
\* created; the other object, never passed, is still in its two.
C14_Witness ==
    /\ Len(objects) = 2
    /\ imported[1].colls = {"Collection", "SM_R_Wall_01"}
    /\ objects[1].colls = {"SM_R_Floor"}
    /\ collections = <<"Collection", "SM_R_Wall_01", "SM_R_Floor">>
    /\ parent_collection[2] = None
    /\ objects[2].colls = {"Collection", "SM_R_Wall_01"}

\* C15: the openings behind the subtraction objects of a slab's proxy are
\* objects the floor-opening pattern matches whose mesh overlaps the
\* proxy, which has the cells of its slab: no opening that does not
\* overlap it is among them.  (A loop body that an exception ended before
\* the carving has listed nothing.)
C15_OnlyOverlappingOpenings ==
    (last_source.stage = "slab" /\ error = None) =>
        \A k \in 1..Len(subtraction_objects) :
            \A name \in subtraction_objects[k].openings :
                \E i \in 1..Len(imported) :
                    /\ imported[i].name = name
                    /\ Matches(floor_opening_regex_str, name)
                    /\ do_meshes_overlap(imported[last_source.src_ob], imported[i])

\* A slab with a stair opening in it and another stair opening elsewhere:
\* the first was carved out of the proxy, the second was left alone.
C15_Witness ==
    /\ last_source.stage = "slab"
    /\ error = None
    /\ Len(subtraction_objects) = 1
    /\ subtraction_objects[1].openings = {"R_Stairs_Opening"}
    /\ \E i \in Alive(objects) :
          /\ objects[i].name = "Q_Stairs_Opening"
          /\ ~do_meshes_overlap(imported[last_source.src_ob], objects[i])
    /\ \E i \in Alive(objects) :
          objects[i].name = "UCX_House_Floor_01_Slab_01" /\ objects[i].cells = {8}

(***************************************************************************)
(* wall_openings_of called on the BASIC source objects of a scene whose    *)
(* room texts are the name grammar's: any characters but "_".              *)
(***************************************************************************)
OpeningSceneNames ==
    <<"A.B_Wall_01", "AxB_Wall_01", "A.B_Wall_01_Opening",
      "AxB_Wall_01_Window_01_Opening", "AxB_Wall_01_Opening_02",
      "R_Wall_01", "R_Wall_01_Door_01_Opening_01", "R_Wall_01_Window_01">>

MaxOpeningObjects == 3

InitOpenings ==
    /\ pc = "openings"
    /\ \E choice \in SUBSET (1..Len(OpeningSceneNames)) :
          /\ Cardinality(choice) <= MaxOpeningObjects
          /\ objects =
                [k \in 1..Cardinality(choice) |->
                    Mesh(OpeningSceneNames[
                        SelectSeq(Indices(OpeningSceneNames), LAMBDA i : i \in choice)[k]])]
    /\ imported = objects
    /\ collections = <<>>
    /\ error = None
    /\ IdleParser
    /\ IdleCollision
    /\ IdleRecenter
    /\ IdleTree
    /\ stages = <<>>
    /\ operator_calls = <<>>
    /\ yielded = <<>>
    /\ parent_collection = <<>>

\* list(wall_openings_of(src_ob)) for the next source object of the basic
\* pass
wall_openings_of_next ==
    /\ pc = "openings"
    /\ Len(yielded) < Len(SourcesOf(objects, basic_collision_regex_str))
    /\ yielded' =
          Append(yielded,
                 [parent_ob |-> SourcesOf(objects, basic_collision_regex_str)[Len(yielded) + 1],
                  openings |-> wall_openings_of(objects,
                      SourcesOf(objects, basic_collision_regex_str)[Len(yielded) + 1])])
    /\ UNCHANGED <<pc, objects, collections, imported, error, parserVars, collisionVars,
                   recenterVars, stages, operator_calls, parent_collection, treeVars>>

NextOpenings == wall_openings_of_next

SpecOpenings == InitOpenings /\ [][NextOpenings]_vars

\* "Opening", "Door_NN_Opening" or "Window_NN_Opening", numbered or not
opening_suffix_regex_str ==
    Cat(<<Opt(Cat(<<Alt(<<Lit("Door"), Lit("Window")>>), Lit("_"), D2, Lit("_")>>)),
          Lit("Opening"), OptD2, EndOfString>>)

\* The name is the source object's name, "_" and an opening suffix.
IsOpeningNameOf(name, source) ==
    /\ StartsWith(name, source \o "_")
    /\ Matches(opening_suffix_regex_str,
               SubSeq(name, Len(source) + 2, Len(name)))

\* C16 as claimed: what wall_openings_of yields for a BASIC source object
\* is exactly the objects named with its name followed by an Opening,
\* Door-Opening or Window-Opening suffix, numbered or not, and so no
\* opening of another source object, whatever the room text of the name.
C16_AsClaimed ==
    \A k \in 1..Len(yielded) :
        {yielded[k].openings[j] : j \in 1..Len(yielded[k].openings)} =
            {i \in 1..Len(objects) :
                IsOpeningNameOf(objects[i].name, objects[yielded[k].parent_ob].name)}

\* C17 as claimed: after recentering every object is moved by the scene
\* reference point with Z pinned to 0, and its origin is at its own
\* geometric median.
C17_AsClaimed ==
    pc = "recentered" =>
        \A i \in 1..Len(objects) :
            /\ objects[i].geometry = <<0, 0, 0>>
            /\ objects[i].location =
                   ExpectedGeometry(imported[i],
                       SceneCenter(imported, SelectedMeshes(imported),
                                   fbx_fixed_scene_center))

\* C17 as amended: after recentering every object is moved by the scene
\* reference point with Z pinned to 0, and its origin is at the world
\* origin, the cursor at (0, 0, 0): the mesh lies away from its origin by
\* the place it was moved to.
C17_OriginAtWorldOrigin ==
    pc = "recentered" =>
        \A i \in 1..Len(objects) :
            /\ objects[i].location = <<0, 0, 0>>
            /\ objects[i].geometry =
                   ExpectedGeometry(imported[i],
                       SceneCenter(imported, SelectedMeshes(imported),
                                   fbx_fixed_scene_center))

\* Two objects recentered around the mean of their locations, (3, 0, 1):
\* the first has its origin at the world origin and its mesh at (-1, 3, 2).
C17_Witness ==
    /\ pc = "recentered"
    /\ ~fbx_fixed_scene_center.is_set
    /\ Len(objects) = 2
    /\ imported[1].location = <<1, 2, 1>>
    /\ imported[2].location = <<5, -3, 2>>
    /\ objects[1].location = <<0, 0, 0>>
    /\ objects[1].geometry = <<-1, 3, 2>>

\* C18 as claimed: at every call of a selection-dependent operator for a
\* target object (origin set, translate, remesh, convex hull, convex
\* decomposition) the selection is that target and nothing else, the four
\* origin calls of the slab pass's height correction among them.
C18_AsClaimed ==
    \A k \in 1..Len(operator_calls) :
        operator_calls[k].selected = {operator_calls[k].target}

\* The operations on the mesh of an object, from the first to the n-th.
FirstOps(ob, n) == SubSeq(objects[ob].ops, 1, n)

\* The copies one subtraction object was made of: one per opening, made
\* one after the other from the subtraction object on.
CopiesOf(entry) == entry.ob..(entry.ob + Cardinality(entry.openings) - 1)

\* C19: of the subtraction objects of a carving that ran to its end, the
\* one of an opening alone (not multipart-named, or the only one of its
\* prefix) is a copy of the opening taken through dissolve, convex hull,
\* solidify, convex hull; the one of two or more parts of a prefix is the
\* copies of the parts, one each, merged by join.  At no time has a convex
\* hull been computed on a mesh after a join.
C19_SolidifyOrMerge ==
    /\ \A i \in 1..Len(objects) : \A a, b \in 1..Len(objects[i].ops) :
          (a < b /\ objects[i].ops[a] = "join") => objects[i].ops[b] # "hull"
    /\ (error = None /\ last_source.stage \in {"basic", "slab"}) =>
          \A k \in 1..Len(subtraction_objects) :
              /\ \A c \in CopiesOf(subtraction_objects[k]) :
                    /\ c > Len(imported)
                    /\ \E name \in subtraction_objects[k].openings :
                          objects[c].name = name \o ".001"
              /\ IF Cardinality(subtraction_objects[k].openings) = 1
                 THEN FirstOps(subtraction_objects[k].ob, 4) =
                          <<"dissolve", "hull", "solidify", "hull">>
                 ELSE /\ FirstOps(subtraction_objects[k].ob, 1) = <<"join">>
                      /\ \A c \in CopiesOf(subtraction_objects[k]) :
                            c # subtraction_objects[k].ob =>
                                objects[c].ops = <<>> /\ ~objects[c].alive

\* A wall with the two parts of a door opening and a window opening that
\* is the only one of its prefix: two subtraction objects, the door's
\* merged from two copies, the window's solidified.
C19_Witness ==
    /\ error = None
    /\ last_source = [stage |-> "basic", src_ob |-> 1]
    /\ Len(subtraction_objects) = 2
    /\ subtraction_objects[1].openings =
          {"R_Wall_01_Door_01_Opening_01", "R_Wall_01_Door_01_Opening_02"}
    /\ subtraction_objects[2].openings = {"R_Wall_01_Window_02_Opening_01"}
    /\ FirstOps(subtraction_objects[1].ob, 1) = <<"join">>
    /\ FirstOps(subtraction_objects[2].ob, 4) = <<"dissolve", "hull", "solidify", "hull">>

\* The proxies made so far, dead or alive.
Proxies == {i \in 1..Len(objects) : i > Len(imported) /\ EndsWith(objects[i].name, "_blank")}

\* C20: while no exception has ended the run, every loop body of the roof,
\* basic and slab passes that has run has made a proxy for its source
\* object and deleted it, after its children were moved from under it: no
\* proxy is left, no object is left under a proxy, and so none is there
\* when generate_collision has returned.
C20_ProxiesDiscarded ==
    error = None =>
        /\ \A i \in Proxies : ~objects[i].alive
        /\ \A i \in Alive(objects) : objects[i].parent \notin Proxies
        /\ last_source.src_ob # 0 =>
              \E i \in Proxies :
                  objects[i].name = imported[last_source.src_ob].name \o "_blank"

\* generate_collision has returned: a ceiling, a wall and a slab each had a
\* proxy, which is gone, and have their convex parts under them.
C20_Witness ==
    /\ pc = "export"
    /\ error = None
    /\ {objects[i].name : i \in Proxies} =
          {"R_Ceiling_blank", "R_Wall_01_blank", "House_Floor_01_Slab_blank"}
    /\ \A i \in Proxies : ~objects[i].alive
    /\ \A s \in 1..3 : MadeFor(s) # {}

(***************************************************************************)
(* The roof pass on its own: scenes of grouped ceilings, roof parts and a  *)
(* wall, named as group_objects_by_room_and_type leaves them.              *)
(***************************************************************************)
RoofSceneMeshes ==
    <<<<"R_Ceiling", "SM_R_Ceiling", {1}>>,
      <<"R_Ceiling_01", "SM_R_Ceiling_01", {2}>>,
      <<"R_Roof_Side", "SM_R_Roof", {3}>>,
      <<"R_Roof_Side_01", "SM_R_Roof", {4}>>,
      <<"R_Roof_01_Side", "SM_R_Roof_01", {5}>>,
      <<"R_Roof_01_SegmentedSide_02", "SM_R_Roof_01", {6}>>,
      <<"R_Roof_SegmentedSide", "SM_R_Roof", {7}>>,
      <<"R_Roof_Gable", "SM_R_Roof", {8}>>,
      <<"R_Wall_01", "SM_R_Wall_01", {9}>>>>

MaxRoofObjects == 2

InitRoof ==
    /\ pc = "roof"
    /\ \E choice \in SUBSET (1..Len(RoofSceneMeshes)) :
          /\ Cardinality(choice) \in 1..MaxRoofObjects
          /\ objects =
                [k \in 1..Cardinality(choice) |->
                    CellMesh(RoofSceneMeshes[
                        SelectSeq(Indices(RoofSceneMeshes),
                                  LAMBDA i : i \in choice)[k]])]
    /\ imported = objects
    /\ collections = CollectionsOf(objects, 1)
    /\ error = None
    /\ IdleParser
    /\ IdleCollision
    /\ IdleLog
    /\ IdleTree
    /\ IdleRecenter

NextRoof ==
    \/ generate_roof_collision
    \/ roof_collision_of_next

SpecRoof == InitRoof /\ [][NextRoof]_vars

\* Names that element_regex_str reads as a ceiling or a plain roof slope,
\* each with or without its two-digit index (lines 121 and 128).
ceiling_or_slope_regex_str ==
    Cat(<<Plus(AnyChar), Lit("_"),
          Alt(<<Cat(<<Lit("Ceiling"), OptD2>>),
                Cat(<<Lit("Roof"), OptD2, Lit("_"),
                      Alt(<<Lit("Side"), Lit("SegmentedSide")>>), OptD2>>)>>),
          EndOfString>>)

\* C21 (as claimed): when the roof pass opens, every mesh named as a
\* ceiling or as a plain roof slope, indexed or not, is among the objects
\* the pass selects.
C21_AsClaimed ==
    [][pc = "roof" =>
          \A i \in Alive(objects) :
              (objects[i].type = "MESH" /\
               Matches(ceiling_or_slope_regex_str, objects[i].name)) =>
                  \E k \in 1..Len(todo') : todo'[k] = i]_vars

\* C22: remove_unwanted_objects_by_type clears the parent link of every
\* mesh before it deletes the non-meshes, so each mesh keeps the place it
\* had in the world; afterwards every object left is a mesh without a
\* parent, and no mesh has been deleted.
C22_MeshesUnparentedThenRestDeleted ==
    [][pc = "remove_by_type" =>
          /\ \A i \in Alive(objects') :
                objects'[i].type = "MESH" /\ objects'[i].parent = 0
          /\ \A i \in Alive(objects) :
                objects[i].type = "MESH" =>
                    /\ i \in Alive(objects')
                    /\ objects'[i].location = WorldLocation(objects, i)
                    /\ objects'[i].name = objects[i].name
          /\ \A i \in Alive(objects) : objects[i].type # "MESH" => ~objects'[i].alive]_vars

\* A mesh under a displaced non-mesh parent has been unparented in place
\* and its parent deleted.
C22_Witness ==
    /\ pc = "slabs"
    /\ \E i \in 1..Len(imported) :
          /\ imported[i].type = "MESH"
          /\ imported[i].parent # 0
          /\ imported[imported[i].parent].type = "EMPTY"
          /\ ~objects[imported[i].parent].alive
          /\ objects[i].alive
          /\ objects[i].parent = 0
          /\ objects[i].location # imported[i].location
          /\ objects[i].location = WorldLocation(imported, i)

\* C23: export_all_collections_to_fbx tries every collection exactly once,
\* in the order of bpy.data.collections, each to '<collection name>.fbx';
\* a RuntimeError caught for one collection does not keep any later
\* collection from being tried.
C23_EveryCollectionTried ==
    pc = "done" =>
        /\ Len(exported) = Len(collections)
        /\ \A k \in 1..Len(collections) :
              /\ exported[k].collection = collections[k]
              /\ exported[k].filepath = collections[k] \o ".fbx"
        /\ \A c \in {collections[k] : k \in 1..Len(collections)} :
              Cardinality({k \in 1..Len(exported) : exported[k].collection = c}) = 1

\* The export of the first of three groups failed, and the two after it
\* were tried all the same, one with success and one without.
C23_Witness ==
    /\ pc = "done"
    /\ Len(collections) >= 3
    /\ ~exported[1].ok
    /\ exported[2].ok
    /\ ~exported[3].ok
    /\ exported[2].filepath = "SM_R_Wall_02.fbx"

\* The loop body about to run finds no opening to carve for its source
\* object.  The proxy fills the cells of its source, so the floor openings
\* that overlap the one are those that overlap the other.
NoOpeningsToCarve ==
    \/ pc = "basic_loop" /\ wall_openings_of(objects, Head(todo)) = <<>>
    \/ pc = "slab_loop" /\ floor_openings_that_intersect(objects, Head(todo)) = <<>>

\* The host calls on a proxy that was prepared and had nothing carved out
\* of it, with or without the decomposition that follows the carving.
UncarvedOps ==
    IF pc = "basic_loop"
    THEN {<<"hull">>, <<"hull", "decompose">>}
    ELSE {<<"remesh", "resize">>, <<"remesh", "resize", "decompose">>}

\* The step prepared its proxy without an exception, so that
\* carve_openings_in_collision_mesh was called.
CarvingReached ==
    Len(objects'[Len(objects) + 1].ops) >= (IF pc = "basic_loop" THEN 1 ELSE 2)

\* The proxy the step made is as it was prepared, nothing was listed for
\* subtraction, no object but convex parts was added and none changed.
ProxyLeftUncarved ==
    /\ subtraction_objects' = <<>>
    /\ objects'[Len(objects) + 1].ops \in UncarvedOps
    /\ objects'[Len(objects) + 1].cells = objects[Head(todo)].cells
    /\ \A i \in (Len(objects) + 2)..Len(objects') :
          StartsWith(objects'[i].name, "UCX_")
    /\ \A i \in 1..Len(objects) : objects'[i] = objects[i]

\* C24: when carve_openings_in_collision_mesh is given no openings, the
\* proxy is left as it was: no boolean difference and no remesh is applied
\* to it, no subtraction object is created, and no other object changes.
\* Put the other way round: a step that reaches the carving and does not
\* leave the proxy alone had openings to carve.
C24_NothingCarvedWithoutOpenings ==
    [][(pc \in {"basic_loop", "slab_loop"} /\ CarvingReached) =>
           (ProxyLeftUncarved \/ ~NoOpeningsToCarve)]_vars

\* A post, which has no openings, was given collision after a wall whose
\* openings were carved: the post's proxy was hulled and decomposed only,
\* and the list of subtraction objects is empty.
C24_Witness ==
    /\ pc = "slab"
    /\ error = None
    /\ last_source.stage = "basic"
    /\ objects[last_source.src_ob].name = "R_Post_01"
    /\ subtraction_objects = <<>>
    /\ \E i, j \in 1..Len(objects) :
          /\ objects[i].name = "R_Wall_01_blank"
          /\ \E k \in 1..Len(objects[i].ops) : objects[i].ops[k] = "difference"
          /\ objects[j].name = "R_Post_01_blank"
          /\ objects[j].ops = <<"hull", "decompose">>
          /\ objects[j].cells = objects[last_source.src_ob].cells

(***************************************************************************)
(* Carving on its own: the wall pass and the slab pass over scenes in      *)
(* which one stair opening lies under two slabs.                           *)
(***************************************************************************)
CarveSceneMeshes ==
    <<<<"R_Wall_01", "SM_R_Wall_01", {1, 2}>>,
      <<"R_Wall_01_Door_01_Opening_01", "SM_R_Wall_01", {1}>>,
      <<"R_Wall_01_Door_01_Opening_02", "SM_R_Wall_01", {1}>>,
      <<"R_Wall_01_Opening", "SM_R_Wall_01", {2}>>,
      <<"House_Floor_01_Slab", "SM_House_Floor_01", {5, 6}>>,
      <<"House_Floor_02_Slab", "SM_House_Floor_02", {6, 7}>>,
      <<"R_Stairs_Opening", "SM_R_Stairs", {6}>>>>

MaxCarveObjects == 3

InitCarve ==
    /\ pc = "basic"
    /\ \E choice \in SUBSET (1..Len(CarveSceneMeshes)) :
          /\ Cardinality(choice) \in 1..MaxCarveObjects
          /\ objects =
                [k \in 1..Cardinality(choice) |->
                    CellMesh(CarveSceneMeshes[
                        SelectSeq(Indices(CarveSceneMeshes),
                                  LAMBDA i : i \in choice)[k]])]
    /\ imported = objects
    /\ collections = CollectionsOf(objects, 1)
    /\ error = None
    /\ IdleParser
    /\ IdleCollision
    /\ IdleLog
    /\ IdleTree
    /\ IdleRecenter

NextCarve ==
    \/ generate_basic_collision
    \/ basic_collision_of_next
    \/ generate_slab_collision
    \/ slab_collision_of_next

SpecCarve == InitCarve /\ [][NextCarve]_vars

\* The objects of the scene as it was that a pass hands to
\* carve_openings_in_collision_mesh as openings: wall openings of a source
\* of the wall pass, and floor openings.
OriginalOpenings ==
    {i \in 1..Len(imported) :
        \/ Matches(floor_opening_regex_str, imported[i].name)
        \/ \E j \in 1..Len(imported) :
              /\ Matches(basic_collision_regex_str, imported[j].name)
              /\ Matches(wall_opening_regex_str(imported[j].name), imported[i].name)}

\* C25: carving works on duplicates only.  Whatever has been carved so far,
\* every original opening object is still there with its name, its group,
\* its parent and its geometry as they were.
C25_OriginalOpeningsKept ==
    \A i \in OriginalOpenings : objects[i] = imported[i]

\* Both slabs have had the one stair opening carved out of their proxies,
\* the later after the earlier, and the opening itself is as it was.
C25_Witness ==
    /\ pc = "export"
    /\ error = None
    /\ \E i, j, o \in 1..Len(imported) :
          /\ imported[i].name = "House_Floor_01_Slab"
          /\ imported[j].name = "House_Floor_02_Slab"
          /\ imported[o].name = "R_Stairs_Opening"
          /\ objects[o] = imported[o]
          /\ \E p, q \in 1..Len(objects) :
                /\ objects[p].name = "House_Floor_01_Slab_blank"
                /\ objects[q].name = "House_Floor_02_Slab_blank"
                /\ objects[p].cells = {5}
                /\ objects[q].cells = {7}
                /\ \E k \in 1..Len(objects[q].ops) : objects[q].ops[k] = "difference"

(***************************************************************************)
(* PrintLiveHome3dProjectTree.py.  A project is the sequence of its XML    *)
(* elements in document order, each with its tag, its class and customName *)
(* attributes (None when absent) and the place of its parent (0 for the    *)
(* root).  The output is the sequence of the lines, each with the element  *)
(* it stands for, its level of indentation and its text.                   *)
(***************************************************************************)
EXCLUDED_CLASSES == {"Measurement", "UserCamera", "Camera", "MovieTrack"}

Element(tag, class, customName, parent) ==
    [tag |-> tag, class |-> class, customName |-> customName, parent |-> parent]

\* The custom names of the projects, in ascending string order.
CustomNames == <<"A", "B", "Ma", "Mb", "N1", "N2", "N3", "N4", "W0", "W1", "W2">>

\* key=lambda e: e.get("customName", ""): the place of the name in the
\* order of strings, the empty string first.
SortKey(el) ==
    IF el.customName = None THEN 0
    ELSE CHOOSE k \in 1..Len(CustomNames) : CustomNames[k] = el.customName

\* sorted(elements, key=...): a stable sort
Sorted(p, elements) ==
    [k \in 1..Len(elements) |->
        CHOOSE e \in {elements[j] : j \in 1..Len(elements)} :
            Cardinality({j \in 1..Len(elements) :
                \/ SortKey(p[elements[j]]) < SortKey(p[e])
                \/ /\ SortKey(p[elements[j]]) = SortKey(p[e])
                   /\ elements[j] < e}) = k - 1]

\* element.findall("*"): the children, in document order
FindAll(p, element) == SelectSeq(Indices(p), LAMBDA i : p[i].parent = element)

\* element.find(tag): the first child of the tag, 0 for None
Find(p, element, tag) ==
    IF \E i \in 1..Len(p) : p[i].parent = element /\ p[i].tag = tag
    THEN CHOOSE i \in 1..Len(p) :
            /\ p[i].parent = element /\ p[i].tag = tag
            /\ \A j \in 1..(i - 1) : ~(p[j].parent = element /\ p[j].tag = tag)
    ELSE 0

\* element.find(".."): ElementPath looks for the parent among the elements
\* under the one find is called on, and the parent of that one is not
\* among them; the result is None.
FindParent(p, element) == 0

\* root.findall(".//products/*[@class]")
ProductsWithClass(p) ==
    SelectSeq(Indices(p),
              LAMBDA i : /\ p[i].class # None
                         /\ p[i].parent # 0
                         /\ p[p[i].parent].tag = "products"
                         /\ p[p[i].parent].parent # 0)

\* parent_map, as lines 78-82 fill it
ParentMap(p) ==
    [parent \in 1..Len(p) |->
        SelectSeq(ProductsWithClass(p),
                  LAMBDA element : /\ FindParent(p, element) # 0
                                   /\ FindParent(p, element) = parent
                                   /\ p[parent].class # None)]

Line(element, level, name, class_name) ==
    [element |-> element, level |-> level, text |-> name \o " (" \o class_name \o ")"]

NameOr(el, default) == IF el.customName = None THEN default ELSE el.customName

\* Lines 45-50: the mouldings of a wall
MouldingLines(p, element, level) ==
    IF p[element].class # "Wall" \/ Find(p, element, "mouldings") = 0 THEN <<>>
    ELSE [k \in 1..Len(FindAll(p, Find(p, element, "mouldings"))) |->
            Line(Sorted(p, FindAll(p, Find(p, element, "mouldings")))[k], level + 1,
                 NameOr(p[Sorted(p, FindAll(p, Find(p, element, "mouldings")))[k]],
                        "Unnamed Moulding"),
                 "Moulding")]

\* roof_products.findall("*[@class='RoofSide']")
RoofSides(p, roof_products) ==
    SelectSeq(FindAll(p, roof_products), LAMBDA i : p[i].class = "RoofSide")

\* Lines 53-59: the sides of a roof
RoofSideLines(p, element, level) ==
    IF p[element].class # "Roof" \/ Find(p, element, "products") = 0 THEN <<>>
    ELSE [k \in 1..Len(RoofSides(p, Find(p, element, "products"))) |->
            Line(Sorted(p, RoofSides(p, Find(p, element, "products")))[k], level + 1,
                 NameOr(p[Sorted(p, RoofSides(p, Find(p, element, "products")))[k]],
                        "Unnamed RoofSide"),
                 "RoofSide")]

RECURSIVE parse_element(_, _, _, _)
RECURSIVE ParseEach(_, _, _, _, _)

\* Lines 62-64: the children the parent map holds, from the k-th on
ParseEach(p, children, k, level, parent_map) ==
    IF k > Len(children) THEN <<>>
    ELSE parse_element(p, children[k], level, parent_map)
         \o ParseEach(p, children, k + 1, level, parent_map)

parse_element(p, element, level, parent_map) ==
    IF p[element].class \in EXCLUDED_CLASSES THEN <<>>
    ELSE <<Line(element, level, NameOr(p[element], "Unnamed " \o p[element].class),
                p[element].class)>>
         \o MouldingLines(p, element, level)
         \o RoofSideLines(p, element, level)
         \o ParseEach(p, Sorted(p, parent_map[element]), 1, level + 1, parent_map)

\* storeys, as line 83 fills it
Storeys(p) ==
    SelectSeq(ProductsWithClass(p), LAMBDA i : p[i].class = "BuildingStorey")

\* products.findall("*[@class]")
ChildrenWithClass(p, products) ==
    SelectSeq(FindAll(p, products), LAMBDA i : p[i].class # None)

\* Lines 89-94: a storey, then the classed children of its products
StoreyLines(p, storey) ==
    parse_element(p, storey, 0, ParentMap(p))
    \o (IF Find(p, storey, "products") = 0 THEN <<>>
        ELSE ParseEach(p, Sorted(p, ChildrenWithClass(p, Find(p, storey, "products"))),
                       1, 1, ParentMap(p)))

RECURSIVE StoreysFrom(_, _, _)
StoreysFrom(p, storeys, k) ==
    IF k > Len(storeys) THEN <<>>
    ELSE StoreyLines(p, storeys[k]) \o StoreysFrom(p, storeys, k + 1)

generate_ascii_tree(p) == StoreysFrom(p, Sorted(p, Storeys(p)), 1)

\* if __name__ == "__main__"
print_tree ==
    /\ pc = "tree"
    /\ output' = generate_ascii_tree(project)
    /\ pc' = "printed"
    /\ UNCHANGED <<objects, collections, imported, error, parserVars, collisionVars,
                   recenterVars, logVars, project>>

MaxNested == 2

NestedNames == <<"N2", "N1", "N4", "N3">>

\* A project of two storeys.  The first has two products, the first of
\* them with mouldings and with up to MaxNested products of its own.
ProjectOf(storey_names, class_name, name, other_name, nested_class, n) ==
    <<Element("project", None, None, 0),
      Element("products", None, None, 1),
      Element("storey", "BuildingStorey", storey_names[1], 2),
      Element("storey", "BuildingStorey", storey_names[2], 2),
      Element("products", None, None, 3),
      Element("product", class_name, name, 5),
      Element("product", "Wall", other_name, 5),
      Element("mouldings", None, None, 6),
      Element("moulding", None, "Mb", 8),
      Element("moulding", None, "Ma", 8),
      Element("products", None, None, 6)>>
    \o [k \in 1..n |-> Element("product", nested_class, NestedNames[k], 11)]

InitTree ==
    /\ pc = "tree"
    /\ \E storey_names \in {<<"A", "B">>, <<"B", "A">>, <<"A", None>>},
          class_name \in {"Wall", "Roof", "Camera"},
          name \in {"W1", None},
          other_name \in {"W0", "W2"},
          nested_class \in {"Window", "RoofSide", "Measurement"},
          n \in 0..MaxNested :
          project = ProjectOf(storey_names, class_name, name, other_name,
                              nested_class, n)
    /\ output = <<>>
    /\ objects = <<>>
    /\ imported = <<>>
    /\ collections = <<>>
    /\ error = None
    /\ IdleParser
    /\ IdleCollision
    /\ IdleLog
    /\ IdleRecenter

NextTree == print_tree

SpecTree == InitTree /\ [][NextTree]_vars

\* The classed element a product lies in: the parent of its products
\* element, 0 when that has no class.
Container(p, element) ==
    IF p[p[element].parent].parent # 0 /\ p[p[p[element].parent].parent].class # None
    THEN p[p[element].parent].parent ELSE 0

\* The products with a class that lie in a classed element, neither of an
\* excluded class nor inside one.
NestedProducts(p) ==
    {e \in {ProductsWithClass(p)[k] : k \in 1..Len(ProductsWithClass(p))} :
        /\ p[e].class \notin EXCLUDED_CLASSES
        /\ Container(p, e) # 0
        /\ p[Container(p, e)].class \notin EXCLUDED_CLASSES}

LinesOf(element) == {k \in 1..Len(output) : output[k].element = element}

\* C26 (as claimed): every product with a class, not excluded, that lies in
\* another classed element has exactly one line of the output, one level
\* below the line of the element it lies in, and products of one element
\* come in ascending order of customName.
C26_AsClaimed ==
    pc = "printed" =>
        \A e \in NestedProducts(project) :
            /\ Cardinality(LinesOf(e)) = 1
            /\ \A k \in LinesOf(e) :
                  \E g \in LinesOf(Container(project, e)) :
                      g < k /\ output[k].level = output[g].level + 1
            /\ \A f \in NestedProducts(project) :
                  (/\ Container(project, f) = Container(project, e)
                   /\ SortKey(project[e]) < SortKey(project[f])) =>
                      \A k \in LinesOf(e), l \in LinesOf(f) : k < l

Spec == SpecParse
====
